---- MODULE Spec2Model ----
(***************************************************************************)
(* Model of the relational-command protocol of one2many / many2many        *)
(* columns (openerp/osv/fields.py) and of the import converter             *)
(* (openerp/addons/base/ir/ir_fields.py).                                  *)
(***************************************************************************)
EXTENDS Integers, Sequences, FiniteSets, TLC

\* ------------------------------------------------------------------------
\* Bounds of the model
\* ------------------------------------------------------------------------
\* ids of the related (comodel) table: 1..MaxRec
MaxRec == 2
\* longest command list handed to one call of set()
MaxCmds == 2
\* longest id list carried by one REPLACE_WITH command
MaxIds == 2

\* ids of the parent records (the model that owns the relational column)
Parents == {1, 2}
RecIds == 1..MaxRec

VARIABLES
    ftype,      \* _type of the column under study: "one2many" or "many2many"
    ondelete,   \* ondelete policy of the inverse many2one (one2many only)
    domainIds,  \* comodel ids that satisfy the column's static domain
    ruleIds,    \* comodel ids that the user's ir.rule domain admits
    db,         \* comodel table and relation table
    last        \* digest of the last call of set()

VARIABLES
    translations,   \* rows of ir.translation: [type, src, value]
    digits,         \* digits of the float column: <<>> or <<precision, scale>>
    record,         \* the record handed to the converter: <<field, value>> items
    tnx_cache,      \* cr.cache of the converter: (types, src) -> translations
    converted,      \* the dictionary that the converter fills
    sink,           \* what the converter logged: <<field, class, message>>
    raised,         \* class of the exception that left the converter, or ""
    stored,         \* what the float column hands to the database on write
    pc              \* "ready", "converted", "written"; "again" and "reconverted"
                    \* in a later import ("off" outside an import)

VARIABLES
    table,      \* records of the model: id -> [link (many2one, 0 for none), val]
    cells,      \* the serialization field of each record: key -> value
    exist,      \* ids of the comodel records that exist
    nextco,     \* id that the next created comodel record gets
    focus,      \* column under study: "computed", "related", "sparse" ("none" otherwise)
    outcome,    \* the last call on the column, with the state it found
    stage       \* "start", "written" after a write, "read" after a read

VARIABLES
    descs,      \* the column descriptors that exist, in the order they were built
    call        \* the last call of new(): descriptor, arguments, returned descriptor

relvars == <<ftype, ondelete, domainIds, ruleIds, db, last>>
impvars == <<translations, digits, record, tnx_cache, converted, sink, raised, stored, pc>>
colvars == <<table, cells, exist, nextco, focus, outcome, stage>>
newvars == <<descs, call>>
vars == <<relvars, impvars, colvars, newvars>>

\* new() has not been called
NoCall == [self |-> 0, computed |-> FALSE, args |-> <<>>, ret |-> 0]
\* No column descriptor is under study
NewIdle == descs = <<>> /\ call = NoCall

\* most records of the model that holds the computed, related and sparse columns
MaxRows == 2
\* most comodel records that ever exist
MaxCo == 4
Rows == 1..MaxRows

\* a call that has not happened
NoOutcome ==
    [op |-> "none", inv |-> FALSE, ids |-> <<>>, key |-> "", val |-> <<"none", FALSE>>,
     names |-> <<>>, arg |-> <<>>, stale |-> FALSE, res |-> <<>>, exc |-> ""]

\* the state that a call found
Before == [table |-> table, cells |-> cells, exist |-> exist]

\* No computed, related or sparse column is under study
ColIdle ==
    /\ table = <<>>
    /\ cells = <<>>
    /\ exist = {}
    /\ nextco = 1
    /\ focus = "none"
    /\ outcome = Before @@ NoOutcome
    /\ stage = "start"

\* No import is going on
ImpIdle ==
    /\ translations = {}
    /\ digits = <<>>
    /\ record = <<>>
    /\ tnx_cache = <<>>
    /\ converted = <<>>
    /\ sink = <<>>
    /\ raised = ""
    /\ stored = <<>>
    /\ pc = "off"

\* Sequences over S of length at most n
SeqUpTo(S, n) == UNION {[1..k -> S] : k \in 0..n}
\* The set of the elements of a sequence
Range(s) == {s[i] : i \in 1..Len(s)}

\* ------------------------------------------------------------------------
\* Relational commands (ir_fields.py:22-28); a command is the triple
\* (tag, id, payload), False being 0 and an absent payload <<>>.
\* ------------------------------------------------------------------------
CREATE == <<0, 0, <<>>>>
UPDATE(id) == <<1, id, <<>>>>
DELETE(id) == <<2, id, <<>>>>
FORGET(id) == <<3, id, <<>>>>
LINK_TO(id) == <<4, id, <<>>>>
DELETE_ALL == <<5, 0, <<>>>>
REPLACE_WITH(ids) == <<6, 0, ids>>

IdLists == SeqUpTo(RecIds, MaxIds)
Cmds == {CREATE, DELETE_ALL}
        \cup {UPDATE(r) : r \in RecIds} \cup {DELETE(r) : r \in RecIds}
        \cup {FORGET(r) : r \in RecIds} \cup {LINK_TO(r) : r \in RecIds}
        \cup {REPLACE_WITH(ids) : ids \in IdLists}
CmdLists == SeqUpTo(Cmds, MaxCmds)

\* ------------------------------------------------------------------------
\* The comodel's ORM methods, as the column code calls them.  A result is
\* [st: the tables, err: an exception was raised, nw: writes performed].
\* ------------------------------------------------------------------------
\* obj.create(vals): the next id of the table's sequence; vals holds the
\* inverse key for a one2many (0 when absent)
create(s, inverse) ==
    [s EXCEPT !.st = [@ EXCEPT !.nextId = @ + 1,
                               !.alive = @ \cup {s.st.nextId},
                               !.inv = [r \in RecIds |->
                                          IF r = s.st.nextId THEN inverse ELSE @[r]]]]

\* obj.unlink(ids): deletes the rows; rows already gone are ignored; the
\* relation table's foreign key removes the links of a deleted record
unlink(s, ids) ==
    [s EXCEPT !.st = [@ EXCEPT !.alive = @ \ ids,
                               !.inv = [r \in RecIds |-> IF r \in ids THEN 0 ELSE @[r]],
                               !.rel = [p \in Parents \X RecIds |->
                                          IF p[2] \in ids THEN 0 ELSE @[p]]]]

\* obj.write(ids, {inverse: value}): raises when a record is missing
write(s, ids, value) ==
    IF ids = {} THEN s
    ELSE IF ~(ids \subseteq s.st.alive) THEN [s EXCEPT !.err = TRUE]
    ELSE [s EXCEPT !.st = [@ EXCEPT !.inv = [r \in RecIds |->
                                               IF r \in ids THEN value ELSE @[r]]],
                   !.nw = @ + 1]

\* obj.write(ids, vals) with vals that do not hold the inverse key
write_vals(s, ids) ==
    IF ids = {} THEN s
    ELSE IF ~(ids \subseteq s.st.alive) THEN [s EXCEPT !.err = TRUE]
    ELSE [s EXCEPT !.nw = @ + 1]

\* obj.search([(inverse, '=', id)] + domain)
search(s, id, domain) ==
    {r \in s.st.alive : s.st.inv[r] = id /\ r \in domain}

\* ------------------------------------------------------------------------
\* one2many.set (fields.py:785-840)
\* ------------------------------------------------------------------------
\* one command of one2many.set that never reads the ondelete policy of the
\* inverse field: FORGET and DELETE_ALL clear the inverse key
one2many_act_setnull(s, id, act) ==
    IF s.err THEN s
    ELSE CASE act[1] = 0 -> create(s, id)
           [] act[1] = 1 -> write_vals(s, {act[2]})
           [] act[1] = 2 -> unlink(s, {act[2]})
           [] act[1] = 3 ->
                [s EXCEPT !.st = [@ EXCEPT !.inv = [r \in RecIds |->
                                      IF r = act[2] THEN 0 ELSE @[r]]]]
           [] act[1] = 4 ->
                IF act[2] \notin s.st.alive THEN [s EXCEPT !.err = TRUE]
                ELSE IF s.st.inv[act[2]] # id THEN write(s, {act[2]}, id)
                ELSE s
           [] act[1] = 5 -> write(s, search(s, id, domainIds), 0)
           [] act[1] = 6 ->
                LET s1 == write(s, Range(act[3]), id)
                    ids2 == IF act[3] = <<>> THEN {0} ELSE Range(act[3])
                    ids3 == {r \in s1.st.alive : s1.st.inv[r] = id /\ r \notin ids2}
                IN IF s1.err THEN s1 ELSE write(s1, ids3, 0)
           [] OTHER -> s

\* one command of the loop of one2many.set, for the parent record id
one2many_act(s, id, act) ==
    IF s.err THEN s
    ELSE CASE act[1] = 0 -> create(s, id)
           [] act[1] = 1 -> write_vals(s, {act[2]})
           [] act[1] = 2 -> unlink(s, {act[2]})
           [] act[1] = 3 ->
                IF ondelete = "cascade" THEN unlink(s, {act[2]})
                ELSE [s EXCEPT !.st = [@ EXCEPT !.inv = [r \in RecIds |->
                                           IF r = act[2] THEN 0 ELSE @[r]]]]
           [] act[1] = 4 ->
                IF act[2] \notin s.st.alive THEN [s EXCEPT !.err = TRUE]
                ELSE IF s.st.inv[act[2]] # id THEN write(s, {act[2]}, id)
                ELSE s
           [] act[1] = 5 ->
                LET ids_to_unlink == search(s, id, domainIds) IN
                IF ondelete = "cascade" THEN unlink(s, ids_to_unlink)
                ELSE write(s, ids_to_unlink, 0)
           [] act[1] = 6 ->
                LET s1 == write(s, Range(act[3]), id)
                    ids2 == IF act[3] = <<>> THEN {0} ELSE Range(act[3])
                    ids3 == {r \in s1.st.alive : s1.st.inv[r] = id /\ r \notin ids2}
                IN IF s1.err THEN s1 ELSE write(s1, ids3, 0)
           [] OTHER -> s

RECURSIVE one2many_loop(_, _, _)
one2many_loop(s, id, values) ==
    IF values = <<>> THEN s
    ELSE one2many_loop(one2many_act(s, id, Head(values)), id, Tail(values))

\* one2many.set(cr, obj, id, field, values) on the tables st
one2many_set(st, id, values) ==
    one2many_loop([st |-> st, err |-> FALSE, nw |-> 0], id, values)

\* ------------------------------------------------------------------------
\* many2many.set (fields.py:1002-1046)
\* ------------------------------------------------------------------------
\* link(ids) whose INSERT lacks the EXCEPT clause: one row per given id
RECURSIVE link_noexcept(_, _, _)
link_noexcept(s, id, ids) ==
    IF ids = <<>> THEN s
    ELSE IF Head(ids) \notin s.st.alive THEN [s EXCEPT !.err = TRUE]
    ELSE link_noexcept(
            [s EXCEPT !.st = [@ EXCEPT !.rel = [p \in Parents \X RecIds |->
                                 IF p = <<id, Head(ids)>> THEN @[p] + 1 ELSE @[p]]],
                      !.nw = @ + 1],
            id, Tail(ids))

\* link(ids): INSERT (SELECT id, unnest(ids)) EXCEPT (the rows of id); the
\* foreign key of the relation table rejects a target that does not exist
link(s, id, ids) ==
    LET new == {i \in Range(ids) : s.st.rel[<<id, i>>] = 0} IN
    IF ~(new \subseteq s.st.alive) THEN [s EXCEPT !.err = TRUE]
    ELSE [s EXCEPT !.st = [@ EXCEPT !.rel = [p \in Parents \X RecIds |->
                              IF p[1] = id /\ p[2] \in new THEN 1 ELSE @[p]]],
                   !.nw = @ + Cardinality(new)]

\* unlink_all() whose DELETE is not held to the rows of id
unlink_all_anyparent(s, id) ==
    [s EXCEPT !.st = [@ EXCEPT !.rel = [p \in Parents \X RecIds |->
                         IF p[2] \in s.st.alive /\ p[2] \in ruleIds
                         THEN 0 ELSE @[p]]]]

\* unlink_all() that forgets the access-rule clause of its DELETE
unlink_all_norule(s, id) ==
    [s EXCEPT !.st = [@ EXCEPT !.rel = [p \in Parents \X RecIds |->
                         IF p[1] = id THEN 0 ELSE @[p]]]]

\* unlink_all(): DELETE the rows of id whose target passes the access rules
unlink_all(s, id) ==
    [s EXCEPT !.st = [@ EXCEPT !.rel = [p \in Parents \X RecIds |->
                         IF p[1] = id /\ p[2] \in s.st.alive /\ p[2] \in ruleIds
                         THEN 0 ELSE @[p]]]]

\* one command of the loop of many2many.set, for the parent record id
many2many_act(s, id, act) ==
    IF s.err THEN s
    ELSE CASE act[1] = 0 ->
                LET idnew == s.st.nextId
                    s1 == create(s, 0)
                IN [s1 EXCEPT !.st = [@ EXCEPT !.rel = [p \in Parents \X RecIds |->
                                         IF p = <<id, idnew>> THEN @[p] + 1 ELSE @[p]]],
                              !.nw = @ + 1]
           [] act[1] = 1 -> write_vals(s, {act[2]})
           [] act[1] = 2 -> unlink(s, {act[2]})
           [] act[1] = 3 ->
                [s EXCEPT !.st = [@ EXCEPT !.rel = [p \in Parents \X RecIds |->
                                     IF p = <<id, act[2]>> THEN 0 ELSE @[p]]]]
           [] act[1] = 4 -> link(s, id, <<act[2]>>)
           [] act[1] = 5 -> unlink_all(s, id)
           [] act[1] = 6 -> link(unlink_all(s, id), id, act[3])
           [] OTHER -> s

\* the loop of many2many.set walking the list from its end
RECURSIVE many2many_loop_rev(_, _, _)
many2many_loop_rev(s, id, values) ==
    IF values = <<>> THEN s
    ELSE many2many_loop_rev(many2many_act(s, id, values[Len(values)]), id,
                            SubSeq(values, 1, Len(values) - 1))

RECURSIVE many2many_loop(_, _, _)
many2many_loop(s, id, values) ==
    IF values = <<>> THEN s
    ELSE many2many_loop(many2many_act(s, id, Head(values)), id, Tail(values))

\* many2many.set(cr, model, id, name, values) on the tables st
many2many_set(st, id, values) ==
    many2many_loop([st |-> st, err |-> FALSE, nw |-> 0], id, values)

\* set() of the column under study
column_set(st, id, values) ==
    IF ftype = "one2many" THEN one2many_set(st, id, values)
    ELSE many2many_set(st, id, values)

\* The value of the column for parent id: the ids linked to it
LinkSet(st, id) ==
    IF ftype = "one2many" THEN {r \in st.alive : st.inv[r] = id}
    ELSE {r \in RecIds : st.rel[<<id, r>>] > 0}

\* ------------------------------------------------------------------------
\* The relational specification
\* ------------------------------------------------------------------------
\* number of CREATE commands of a list
RECURSIVE NumCreate(_)
NumCreate(values) ==
    IF values = <<>> THEN 0
    ELSE (IF Head(values)[1] = 0 THEN 1 ELSE 0) + NumCreate(Tail(values))

\* the comodel's id sequence can serve the CREATE commands of the list
Fits(st, values) == st.nextId + NumCreate(values) <= MaxRec + 1

\* Consistent tables: ids never handed out hold nothing, a deleted record
\* has no inverse key and no relation row, and no pair is linked twice
Tables(t) ==
    {[nextId |-> n, alive |-> a, inv |-> i, rel |-> l] :
        n \in 1..(MaxRec + 1), a \in SUBSET RecIds,
        i \in [RecIds -> {0} \cup Parents],
        l \in [Parents \X RecIds -> {0, 1}]}

WellFormed(t, st) ==
    /\ \A r \in st.alive : r < st.nextId
    /\ \A r \in RecIds \ st.alive : st.inv[r] = 0
    /\ \A p \in Parents \X RecIds : st.rel[p] > 0 => p[2] \in st.alive
    /\ t = "one2many" => \A p \in Parents \X RecIds : st.rel[p] = 0
    /\ t = "many2many" => \A r \in RecIds : st.inv[r] = 0

InitRel ==
    /\ ftype \in {"one2many", "many2many"}
    /\ ondelete \in {"cascade", "set null"}
    /\ domainIds \in SUBSET RecIds
    /\ ruleIds \in SUBSET RecIds
    /\ ftype = "one2many" => ruleIds = RecIds
    /\ ftype = "many2many" => domainIds = RecIds /\ ondelete = "set null"
    /\ db \in {st \in Tables(ftype) : WellFormed(ftype, st)}
    /\ last = [id |-> 0, op |-> -1, arg |-> 0, ids |-> <<>>, len |-> 0, err |-> FALSE]
    /\ ImpIdle
    /\ ColIdle
    /\ NewIdle

\* What the model remembers of a call: the length of the list, whether the
\* call raised, the tag of the last command of the list (-1 for an empty
\* list) and, for a list of one command, the parent id and the operands
Digest(id, values, r) ==
    LET act == IF values = <<>> THEN <<-1, 0, <<>>>> ELSE values[Len(values)]
        one == Len(values) = 1
    IN [op |-> act[1], len |-> Len(values), err |-> r.err,
        id |-> IF one THEN id ELSE 0,
        arg |-> IF one THEN act[2] ELSE 0,
        ids |-> IF one THEN act[3] ELSE <<>>]

SetCall(id, values) ==
    /\ Fits(db, values)
    /\ \E r \in {column_set(db, id, values)} :
         /\ db' = r.st
         /\ last' = Digest(id, values, r)
    /\ UNCHANGED <<ftype, ondelete, domainIds, ruleIds, impvars, colvars, newvars>>

O2MSet ==
    /\ ftype = "one2many"
    /\ \E id \in Parents, values \in CmdLists : SetCall(id, values)

M2MSet ==
    /\ ftype = "many2many"
    /\ \E id \in Parents, values \in CmdLists : SetCall(id, values)

NextRel == O2MSet \/ M2MSet

SpecRel == InitRel /\ [][NextRel]_vars

\* ------------------------------------------------------------------------
\* Texts.  A text is the sequence of its characters.
\* ------------------------------------------------------------------------
UpperChars == <<"A", "B", "C", "D", "E", "F", "G", "H", "I", "J", "K", "L", "M",
                "N", "O", "P", "Q", "R", "S", "T", "U", "V", "W", "X", "Y", "Z">>
LowerChars == <<"a", "b", "c", "d", "e", "f", "g", "h", "i", "j", "k", "l", "m",
                "n", "o", "p", "q", "r", "s", "t", "u", "v", "w", "x", "y", "z">>
DigitChars == <<"0", "1", "2", "3", "4", "5", "6", "7", "8", "9">>

\* str.lower()
lower(text) ==
    [i \in 1..Len(text) |->
        IF \E k \in 1..Len(UpperChars) : UpperChars[k] = text[i]
        THEN LowerChars[CHOOSE k \in 1..Len(UpperChars) : UpperChars[k] = text[i]]
        ELSE text[i]]

IsDigit(c) == \E k \in 1..Len(DigitChars) : DigitChars[k] = c
DigitVal(c) == (CHOOSE k \in 1..Len(DigitChars) : DigitChars[k] = c) - 1
AllDigits(text) == \A i \in 1..Len(text) : IsDigit(text[i])

\* the number written by a text of digits (0 for the empty text)
RECURSIVE DigitsVal(_)
DigitsVal(text) ==
    IF text = <<>> THEN 0
    ELSE 10 * DigitsVal(SubSeq(text, 1, Len(text) - 1)) + DigitVal(text[Len(text)])

\* the decimal digits of a natural number
RECURSIVE NatText(_)
NatText(n) ==
    IF n < 10 THEN <<DigitChars[n + 1]>>
    ELSE NatText(n \div 10) \o <<DigitChars[(n % 10) + 1]>>

RECURSIVE Pow10(_)
Pow10(k) == IF k = 0 THEN 1 ELSE 10 * Pow10(k - 1)

\* position of the first c in text, 0 when there is none
RECURSIVE Find(_, _)
Find(text, c) ==
    IF text = <<>> THEN 0
    ELSE IF Head(text) = c THEN 1
    ELSE LET k == Find(Tail(text), c) IN IF k = 0 THEN 0 ELSE k + 1

\* str.split(sep)
RECURSIVE split(_, _)
split(text, sep) ==
    LET k == Find(text, sep) IN
    IF k = 0 THEN <<text>>
    ELSE <<SubSeq(text, 1, k - 1)>> \o split(SubSeq(text, k + 1, Len(text)), sep)


\* ------------------------------------------------------------------------
\* Scalar converters of the import layer (ir_fields.py)
\* ------------------------------------------------------------------------
\* longest generated text of a float field
MaxLen == 4
\* largest scale (decimal places) of the digits of a float column
MaxScale == 2
\* A float is held exactly: its sign (python floats have a negative zero)
\* and its magnitude in units of 10^-FracDigits; a text of MaxLen characters
\* with a point has at most MaxLen - 1 decimals
FracDigits == MaxLen - 1
Num(neg, abs) == [neg |-> neg, abs |-> abs]
NumValue(num) == IF num.neg THEN -num.abs ELSE num.abs

\* python values handed on by the converters, tagged with their type
False == <<"bool", FALSE>>
Bool(b) == <<"bool", b>>
Float(num) == <<"float", num>>
Str(text) == <<"str", text>>
Id(i) == <<"int", i>>
List(l) == <<"list", l>>

\* a converter returns (value, warnings) or raises; exc is "" when it
\* returned, else the class of the exception; cache is the cursor's
\* translation cache after the call
Return(val, ws, cache) ==
    [exc |-> "", msg |-> "", val |-> val, ws |-> ws, cache |-> cache]
Raise(exc, msg, cache) ==
    [exc |-> exc, msg |-> msg, val |-> False, ws |-> <<>>, cache |-> cache]

\* tools.float_round(value, precision_digits=scale), half away from zero
float_round(num, scale) ==
    LET unit == Pow10(FracDigits - scale)
        q == (num.abs \div unit) + (IF 2 * (num.abs % unit) >= unit THEN 1 ELSE 0)
    IN Num(num.neg, q * unit)

\* tools.float_repr(value, precision_digits=scale): "%.<scale>f"
float_repr(num, scale) ==
    LET unit == Pow10(FracDigits - scale)
        whole == num.abs \div Pow10(FracDigits)
        frac == (num.abs % Pow10(FracDigits)) \div unit
        ftext == NatText(frac)
        pad == [i \in 1..(scale - Len(ftext)) |-> "0"]
    IN (IF num.neg THEN <<"-">> ELSE <<>>) \o NatText(whole)
       \o (IF scale = 0 THEN <<>> ELSE <<".">> \o pad \o ftext)

\* _symbol_set_float(self, x) of a float column with the given digits
\* (<<>> for no digits, else <<precision, scale>>): x or 0.0 is rounded
symbol_set_float(dg, x) ==
    LET result == IF x = False \/ x[2].abs = 0 THEN Num(FALSE, 0) ELSE x[2] IN
    IF dg = <<>> THEN Float(result)
    ELSE Str(float_repr(float_round(result, dg[2]), dg[2]))

\* builtin float(text): an optional sign, digits with at most one point
FloatParts(text) ==
    LET neg == text # <<>> /\ Head(text) = "-"
        body == IF neg THEN Tail(text) ELSE text
        k == Find(body, ".")
    IN [neg |-> neg,
        ip |-> IF k = 0 THEN body ELSE SubSeq(body, 1, k - 1),
        fp |-> IF k = 0 THEN <<>> ELSE SubSeq(body, k + 1, Len(body))]
IsFloatText(text) ==
    LET p == FloatParts(text) IN
    AllDigits(p.ip) /\ AllDigits(p.fp) /\ (p.ip # <<>> \/ p.fp # <<>>)
FloatOf(text) ==
    LET p == FloatParts(text) IN
    Num(p.neg, DigitsVal(p.ip) * Pow10(FracDigits)
               + DigitsVal(p.fp) * Pow10(FracDigits - Len(p.fp)))

\* _str_to_float that rounds to the scale of the column while it converts
str_to_float_rounding(cache, dg, value) ==
    IF IsFloatText(value)
    THEN Return(Float(IF dg = <<>> THEN FloatOf(value)
                      ELSE float_round(FloatOf(value), dg[2])), <<>>, cache)
    ELSE Raise("ValueError", "not_a_number", cache)

\* _str_to_float(model, field, value)
str_to_float(cache, dg, value) ==
    IF IsFloatText(value) THEN Return(Float(FloatOf(value)), <<>>, cache)
    ELSE Raise("ValueError", "not_a_number", cache)

\* _get_translations(types, src): the values of the ir.translation rows of
\* these types for src, read through the cursor's cache
get_translations(cache, rows, types, src) ==
    LET key == <<types, src>> IN
    IF key \in DOMAIN cache THEN [res |-> cache[key], cache |-> cache]
    ELSE LET result == {t.value : t \in {u \in rows :
                            u.type \in types /\ u.src = src /\ u.value # False}}
         IN [res |-> result, cache |-> cache @@ (key :> result)]

TrueText == <<"t", "r", "u", "e">>
YesText == <<"y", "e", "s">>
FalseText == <<"f", "a", "l", "s", "e">>
NoText == <<"n", "o">>

\* _str_to_boolean that consults no translation
str_to_boolean_untranslated(cache, rows, value) ==
    IF lower(value) \in {<<"1">>, TrueText, YesText} THEN Return(Bool(TRUE), <<>>, cache)
    ELSE IF lower(value) \in {<<>>, <<"0">>, FalseText, NoText}
    THEN Return(Bool(FALSE), <<>>, cache)
    ELSE Return(Bool(TRUE), <<"unknown_boolean">>, cache)

\* _str_to_boolean(model, field, value)
str_to_boolean(cache, rows, value) ==
    LET t1 == get_translations(cache, rows, {"code"}, TrueText)
        t2 == get_translations(t1.cache, rows, {"code"}, YesText)
        trues == {lower(w[2]) : w \in {Str(<<"1">>), Str(TrueText), Str(YesText)}
                                       \cup t1.res \cup t2.res}
        f1 == get_translations(t2.cache, rows, {"code"}, FalseText)
        f2 == get_translations(f1.cache, rows, {"code"}, NoText)
        falses == {lower(w[2]) : w \in {Str(<<>>), Str(<<"0">>), Str(FalseText), Str(NoText)}
                                        \cup f1.res \cup f2.res}
    IN IF lower(value) \in trues THEN Return(Bool(TRUE), <<>>, t2.cache)
       ELSE IF lower(value) \in falses THEN Return(Bool(FALSE), <<>>, f2.cache)
       ELSE Return(Bool(TRUE), <<"unknown_boolean">>, f2.cache)


\* ------------------------------------------------------------------------
\* Reference resolution and relational converters (ir_fields.py)
\* ------------------------------------------------------------------------
\* keys of a nested rec: the name (python None), the external id, the
\* database id, and a sub-field that identifies no rec
NoneKey == "None"
REFERENCING_FIELDS == {NoneKey, "id", ".id"}
SubFields == REFERENCING_FIELDS \cup {"name"}

\* The related model of the relational fields: its records with their
\* display names, the external ids that resolve, and the module of the
\* import (context key _import_current_module)
CoNames ==
    (1 :> <<"n">>) @@ (2 :> <<"d">>) @@ (3 :> <<"d">>)
    @@ (4 :> <<"e">>) @@ (5 :> <<"e">>) @@ (6 :> <<"e">>)
XmlIds == (<<"m", ".", "a">> :> 1) @@ (<<"o", ".", "b">> :> 2)
CurrentModule == <<"m">>

\* builtin int(text): an optional sign and digits
IsIntText(text) ==
    LET body == IF text # <<>> /\ Head(text) = "-" THEN Tail(text) ELSE text IN
    body # <<>> /\ AllDigits(body)
IntOf(text) ==
    IF Head(text) = "-" THEN -DigitsVal(Tail(text)) ELSE DigitsVal(text)

\* RelatedModel.name_search(name=value, operator='='): the matching ids in
\* the order of the related model (by id)
RECURSIVE SortedIds(_)
SortedIds(S) ==
    IF S = {} THEN <<>>
    ELSE LET m == CHOOSE x \in S : \A y \in S : x <= y IN <<m>> \o SortedIds(S \ {m})
name_search(value) == SortedIds({r \in DOMAIN CoNames : CoNames[r] = value})

\* db_id_for that looks every external id up as it is given
db_id_for_asgiven(cache, subfield, value) ==
    CASE subfield = ".id" ->
            IF ~IsIntText(value) THEN Raise("ValueError", "invalid_database_id", cache)
            ELSE IF IntOf(value) \in DOMAIN CoNames
                 THEN Return(Id(IntOf(value)), <<>>, cache)
                 ELSE Raise("ValueError", "no_matching_record", cache)
      [] subfield = "id" ->
            IF value \in DOMAIN XmlIds THEN Return(Id(XmlIds[value]), <<>>, cache)
            ELSE Raise("ValueError", "no_matching_record", cache)
      [] subfield = NoneKey ->
            LET ids == name_search(value) IN
            IF ids = <<>> THEN Raise("ValueError", "no_matching_record", cache)
            ELSE Return(Id(ids[1]),
                        IF Len(ids) > 1 THEN <<<<"multiple_matches", Len(ids)>>>> ELSE <<>>,
                        cache)
      [] OTHER -> Raise("Exception", "unknown_subfield", cache)

\* db_id_for that takes the last of several matches of a name
db_id_for_last(cache, subfield, value) ==
    CASE subfield = ".id" ->
            IF ~IsIntText(value) THEN Raise("ValueError", "invalid_database_id", cache)
            ELSE IF IntOf(value) \in DOMAIN CoNames
                 THEN Return(Id(IntOf(value)), <<>>, cache)
                 ELSE Raise("ValueError", "no_matching_record", cache)
      [] subfield = "id" ->
            LET xmlid == IF Find(value, ".") # 0 THEN value
                         ELSE CurrentModule \o <<".">> \o value
            IN IF xmlid \in DOMAIN XmlIds THEN Return(Id(XmlIds[xmlid]), <<>>, cache)
               ELSE Raise("ValueError", "no_matching_record", cache)
      [] subfield = NoneKey ->
            LET ids == name_search(value) IN
            IF ids = <<>> THEN Raise("ValueError", "no_matching_record", cache)
            ELSE Return(Id(ids[Len(ids)]),
                        IF Len(ids) > 1 THEN <<<<"multiple_matches", Len(ids)>>>> ELSE <<>>,
                        cache)
      [] OTHER -> Raise("Exception", "unknown_subfield", cache)

\* db_id_for(model, field, subfield, value); the warning of several
\* matches of a name carries their number
db_id_for(cache, subfield, value) ==
    CASE subfield = ".id" ->
            IF ~IsIntText(value) THEN Raise("ValueError", "invalid_database_id", cache)
            ELSE IF IntOf(value) \in DOMAIN CoNames
                 THEN Return(Id(IntOf(value)), <<>>, cache)
                 ELSE Raise("ValueError", "no_matching_record", cache)
      [] subfield = "id" ->
            LET xmlid == IF Find(value, ".") # 0 THEN value
                         ELSE CurrentModule \o <<".">> \o value
            IN IF xmlid \in DOMAIN XmlIds THEN Return(Id(XmlIds[xmlid]), <<>>, cache)
               ELSE Raise("ValueError", "no_matching_record", cache)
      [] subfield = NoneKey ->
            LET ids == name_search(value) IN
            IF ids = <<>> THEN Raise("ValueError", "no_matching_record", cache)
            ELSE Return(Id(ids[1]),
                        IF Len(ids) > 1 THEN <<<<"multiple_matches", Len(ids)>>>> ELSE <<>>,
                        cache)
      [] OTHER -> Raise("Exception", "unknown_subfield", cache)

\* _referencing_subfield without the check of the number of keys
referencing_subfield_any(rec) ==
    LET fieldset == DOMAIN rec IN
    IF fieldset \ REFERENCING_FIELDS # {}
    THEN [exc |-> "ValueError", msg |-> "indirect_many2one", subfield |-> ""]
    ELSE IF fieldset = {}
    THEN [exc |-> "ValueError", msg |-> "unpack", subfield |-> ""]
    ELSE [exc |-> "", msg |-> "", subfield |->
            CHOOSE k \in fieldset : \A j \in fieldset : k = ".id" \/ (k = "id" /\ j # ".id") \/ j = NoneKey]

\* _referencing_subfield(record): the one referencing key of the record
referencing_subfield(rec) ==
    LET fieldset == DOMAIN rec IN
    IF fieldset \ REFERENCING_FIELDS # {}
    THEN [exc |-> "ValueError", msg |-> "indirect_many2one", subfield |-> ""]
    ELSE IF Cardinality(fieldset) > 1
    THEN [exc |-> "ValueError", msg |-> "ambiguous_specification", subfield |-> ""]
    ELSE IF fieldset = {}
    THEN [exc |-> "ValueError", msg |-> "unpack", subfield |-> ""]
    ELSE [exc |-> "", msg |-> "", subfield |-> CHOOSE k \in fieldset : TRUE]

\* _str_to_many2one that takes the first of the records it is handed
str_to_many2one_first(cache, values) ==
    LET rec == values[1]
        sub == referencing_subfield(rec)
    IN IF sub.exc # "" THEN Raise(sub.exc, sub.msg, cache)
       ELSE db_id_for(cache, sub.subfield, rec[sub.subfield])

\* _str_to_many2one(model, field, values)
str_to_many2one(cache, values) ==
    IF Len(values) # 1 THEN Raise("ValueError", "unpack", cache)
    ELSE LET rec == values[1]
             sub == referencing_subfield(rec)
         IN IF sub.exc # "" THEN Raise(sub.exc, sub.msg, cache)
            ELSE db_id_for(cache, sub.subfield, rec[sub.subfield])

\* the loop of _str_to_many2many passing over the references that raise
RECURSIVE resolve_some(_, _, _)
resolve_some(acc, subfield, references) ==
    IF references = <<>> THEN acc
    ELSE LET r == db_id_for(acc.cache, subfield, Head(references)) IN
         IF r.exc # "" THEN resolve_some(acc, subfield, Tail(references))
         ELSE resolve_some(Return(acc.val \o <<r.val[2]>>, acc.ws \o r.ws, r.cache),
                           subfield, Tail(references))

\* the loop of _str_to_many2many: the ids of the references, or the first
\* exception that db_id_for raises
RECURSIVE resolve_all(_, _, _)
resolve_all(acc, subfield, references) ==
    IF references = <<>> \/ acc.exc # "" THEN acc
    ELSE LET r == db_id_for(acc.cache, subfield, Head(references)) IN
         IF r.exc # "" THEN r
         ELSE resolve_all(Return(acc.val \o <<r.val[2]>>, acc.ws \o r.ws, r.cache),
                          subfield, Tail(references))

\* _str_to_many2many(model, field, value)
str_to_many2many(cache, value) ==
    IF Len(value) # 1 THEN Raise("ValueError", "unpack", cache)
    ELSE LET rec == value[1]
             sub == referencing_subfield(rec)
         IN IF sub.exc # "" THEN Raise(sub.exc, sub.msg, cache)
            ELSE LET r == resolve_all(Return(<<>>, <<>>, cache), sub.subfield,
                                      split(rec[sub.subfield], ","))
                 IN IF r.exc # "" THEN r
                    ELSE Return(List(<<REPLACE_WITH(r.val)>>), r.ws, r.cache)


\* ------------------------------------------------------------------------
\* The converter of a model (for_model) and the import of one record
\* ------------------------------------------------------------------------
\* longest comma-separated reference list of a many2many value
MaxRefs == 2
\* most fields of a generated record that holds several fields
MaxFields == 2

\* model._fields of the imported model: the type of each field
Fields ==
    ("active" :> "boolean") @@ ("price" :> "float") @@ ("partner" :> "many2one")
    @@ ("tags" :> "many2many") @@ ("data" :> "serialized")
    @@ ("lines" :> "one2many") @@ ("state" :> "selection") @@ ("day" :> "date")

\* _fields of the comodel of the one2many field
CoFields == ("name" :> "char") @@ ("qty" :> "float") @@ ("flag" :> "boolean")

\* self.env[name]._fields
ModelFields(model) == IF model = "line" THEN CoFields ELSE Fields

\* the field types for which the converter has a method _str_to_<type>
ConverterTypes ==
    {"boolean", "integer", "float", "reference", "char", "text", "binary", "html",
     "date", "datetime", "selection", "many2one", "many2many", "one2many"}

\* to_field(model, field, fromtype=str): the converter of the field, or None
to_field(ty) == IF ty \in ConverterTypes THEN ty ELSE "None"

\* raw values that are None and False; with the empty text and the empty
\* list (both <<>>) they are the values that "not value" takes for empty
RawNone == <<"", "None", "">>
RawFalse == <<"", "False", "">>
Falsy(value) == value = <<>> \/ value = RawNone \/ value = RawFalse

\* _str_id(model, field, value): char, text, binary, html, reference
str_id(cache, value) == Return(Str(value), <<>>, cache)

\* ---- selection and date ----
\* field.get_description(env)['selection'] of the selection field: pairs of
\* a key and its untranslated label; a key is a text or an integer
Selection ==
    << <<Str(<<"d">>), <<"D", "r">>>>,
       <<Id(1), <<"O", "n">>>>,
       <<Str(<<"c">>), <<"C">>>> >>

\* str(item)
PyStr(item) == IF item[1] = "int" THEN NatText(item[2]) ELSE item[2]
\* the truth value of a key
Truthy(item) == IF item[1] = "int" THEN item[2] # 0 ELSE item[2] # <<>>

\* [_label or str(item) for item, _label in selection if _label or item]
sel_moreinfo(selection) ==
    LET kept == SelectSeq(selection, LAMBDA p : p[2] # <<>> \/ Truthy(p[1])) IN
    [i \in 1..Len(kept) |-> IF kept[i][2] # <<>> THEN kept[i][2] ELSE PyStr(kept[i][1])]

SelTypes == {"selection", "model", "code"}

\* the loop of _str_to_selection that matches keys and untranslated labels only
RECURSIVE sel_loop_untranslated(_, _, _, _)
sel_loop_untranslated(cache, rows, value, items) ==
    IF items = <<>>
    THEN Raise("ValueError", <<"not_in_selection", sel_moreinfo(Selection)>>, cache)
    ELSE IF value = PyStr(items[1][1]) \/ value = items[1][2]
         THEN Return(items[1][1], <<>>, cache)
         ELSE sel_loop_untranslated(cache, rows, value, Tail(items))

\* the loop of _str_to_selection over the items that are left
RECURSIVE sel_loop(_, _, _, _)
sel_loop(cache, rows, value, items) ==
    IF items = <<>>
    THEN Raise("ValueError", <<"not_in_selection", sel_moreinfo(Selection)>>, cache)
    ELSE LET item == items[1][1]
             label == items[1][2]
             t == get_translations(cache, rows, SelTypes, label)
             labels == {Str(label)} \cup t.res
         IN IF value = PyStr(item) \/ Str(value) \in labels
            THEN Return(item, <<>>, t.cache)
            ELSE sel_loop(t.cache, rows, value, Tail(items))

\* _str_to_selection(model, field, value)
str_to_selection(cache, rows, value) == sel_loop(cache, rows, value, Selection)

\* the example of the expected format that the error of a date carries
ExampleDate == <<"2", "0", "1", "2", "-", "1", "2", "-", "3", "1">>

\* what the directives %m and %d of strptime match
IsMonth(t) ==
    \/ Len(t) = 1 /\ IsDigit(t[1]) /\ t[1] # "0"
    \/ Len(t) = 2 /\ AllDigits(t) /\ DigitsVal(t) \in 1..12
IsDay(t) ==
    \/ Len(t) = 1 /\ IsDigit(t[1]) /\ t[1] # "0"
    \/ Len(t) = 2 /\ AllDigits(t) /\ DigitsVal(t) \in 1..31
    \/ Len(t) = 2 /\ t[1] = " " /\ IsDigit(t[2]) /\ t[2] # "0"
DayVal(t) == IF t[1] = " " THEN DigitVal(t[2]) ELSE DigitsVal(t)

\* the days of a month of the proleptic Gregorian calendar
IsLeap(y) == y % 4 = 0 /\ (y % 100 # 0 \/ y % 400 = 0)
DaysIn(y, m) ==
    IF m = 2 THEN (IF IsLeap(y) THEN 29 ELSE 28)
    ELSE IF m \in {4, 6, 9, 11} THEN 30 ELSE 31

\* time.strptime(value, "%Y-%m-%d") returns: the whole text is four digits,
\* a month and a day between dashes, and they are a date of the calendar
strptime_date(value) ==
    /\ Len(value) >= 8
    /\ AllDigits(SubSeq(value, 1, 4))
    /\ value[5] = "-"
    /\ LET rest == SubSeq(value, 6, Len(value))
           k == Find(rest, "-")
       IN /\ k \in {2, 3}
          /\ LET m == SubSeq(rest, 1, k - 1)
                 d == SubSeq(rest, k + 1, Len(rest))
                 y == DigitsVal(SubSeq(value, 1, 4))
             IN /\ IsMonth(m) /\ IsDay(d)
                /\ y >= 1
                /\ DayVal(d) <= DaysIn(y, DigitsVal(m))

\* _str_to_date that takes every text
str_to_date_any(cache, value) == Return(Str(value), <<>>, cache)

\* _str_to_date(model, field, value)
str_to_date(cache, value) ==
    IF strptime_date(value) THEN Return(Str(value), <<>>, cache)
    ELSE Raise("ValueError", <<"invalid_date", ExampleDate>>, cache)

\* converters[field](value): a call of what to_field returned
RECURSIVE call_converter(_, _, _, _, _)

\* dict assignment d[k] = v
SetItem(d, k, v) == [x \in DOMAIN d \cup {k} |-> IF x = k THEN v ELSE d[x]]

\* a round of the loop of fn that hands empty values to the converter too
fn_item_noempty(model, log, acc, rows, dg, item) ==
    LET field == item[1]
        value == item[2]
    IN IF field \in {NoneKey, "id", ".id"} THEN acc
       ELSE LET r == call_converter(acc.cache, rows, dg,
                                    to_field(ModelFields(model)[field]), value) IN
            IF r.exc = ""
            THEN [acc EXCEPT !.converted = SetItem(acc.converted, field, r.val),
                             !.sink = acc.sink \o [i \in 1..Len(r.ws) |->
                                                     <<field, "ImportWarning", r.ws[i]>>],
                             !.cache = r.cache]
            ELSE IF r.exc = "ValueError" /\ log = "sink"
            THEN [acc EXCEPT !.sink = Append(acc.sink, <<field, "ValueError", r.msg>>),
                             !.cache = r.cache]
            ELSE [acc EXCEPT !.exc = r.exc, !.msg = r.msg, !.cache = r.cache]

\* one round of the loop of fn, for the item (field, value); log is "sink"
\* for a log that records the issue and "raise" for the log of
\* _str_to_one2many, which raises what is not a warning
fn_item(model, log, acc, rows, dg, item) ==
    LET field == item[1]
        value == item[2]
    IN IF field \in {NoneKey, "id", ".id"} THEN acc
       ELSE IF Falsy(value)
       THEN [acc EXCEPT !.converted = SetItem(acc.converted, field, False)]
       ELSE LET r == call_converter(acc.cache, rows, dg,
                                    to_field(ModelFields(model)[field]), value) IN
            IF r.exc = ""
            THEN [acc EXCEPT !.converted = SetItem(acc.converted, field, r.val),
                             !.sink = acc.sink \o [i \in 1..Len(r.ws) |->
                                                     <<field, "ImportWarning", r.ws[i]>>],
                             !.cache = r.cache]
            ELSE IF r.exc = "ValueError" /\ log = "sink"
            THEN [acc EXCEPT !.sink = Append(acc.sink, <<field, "ValueError", r.msg>>),
                             !.cache = r.cache]
            ELSE [acc EXCEPT !.exc = r.exc, !.msg = r.msg, !.cache = r.cache]

\* the loop of fn: for field, value in record.items()
RECURSIVE fn_loop(_, _, _, _, _, _)
fn_loop(model, log, acc, rows, dg, items) ==
    IF items = <<>> \/ acc.exc # "" THEN acc
    ELSE fn_loop(model, log, fn_item(model, log, acc, rows, dg, Head(items)),
                 rows, dg, Tail(items))

\* for_model(model)(record, log) whose log never raises
for_model_sinkall(model, log, cache, rows, dg, rec) ==
    fn_loop(model, "sink",
            [converted |-> <<>>, sink |-> <<>>, cache |-> cache, exc |-> "", msg |-> ""],
            rows, dg, rec)

\* for_model(model)(record, log)
for_model(model, log, cache, rows, dg, rec) ==
    fn_loop(model, log,
            [converted |-> <<>>, sink |-> <<>>, cache |-> cache, exc |-> "", msg |-> ""],
            rows, dg, rec)

\* fn(record, log) of the converter of the imported model
fn(cache, rows, dg, rec) == for_model("order", "sink", cache, rows, dg, rec)

\* ---- one2many values: a list of nested records, each a list of items ----
only_ref_fields(rec) == SelectSeq(rec, LAMBDA it : it[1] \in REFERENCING_FIELDS)
exclude_ref_fields(rec) == SelectSeq(rec, LAMBDA it : it[1] \notin REFERENCING_FIELDS)
\* the dictionary of a list of items with distinct keys
AsDict(rec) == [k \in {rec[i][1] : i \in 1..Len(rec)} |->
                  (CHOOSE it \in Range(rec) : it[1] = k)[2]]

\* the commands of the import layer that carry a dictionary of values
CREATE_WITH(values) == <<0, 0, values>>
UPDATE_WITH(id, values) == <<1, id, values>>

\* the loop body of _str_to_one2many with UPDATE before LINK_TO
o2m_item_swapped(acc, rows, dg, rec) ==
    LET refs == only_ref_fields(rec)
        sub == IF refs = <<>> THEN [exc |-> "", msg |-> "", subfield |-> ""]
               ELSE referencing_subfield(AsDict(refs))
        d == IF refs = <<>> \/ sub.exc # "" THEN Return(Id(0), <<>>, acc.cache)
             ELSE db_id_for(acc.cache, sub.subfield, AsDict(rec)[sub.subfield])
        w == for_model("line", "raise", d.cache, rows, dg, exclude_ref_fields(rec))
    IN IF sub.exc # "" THEN [acc EXCEPT !.exc = sub.exc, !.msg = sub.msg]
       ELSE IF d.exc # "" THEN [acc EXCEPT !.exc = d.exc, !.msg = d.msg, !.cache = d.cache]
       ELSE IF w.exc # "" THEN [acc EXCEPT !.exc = w.exc, !.msg = w.msg, !.cache = w.cache]
       ELSE [acc EXCEPT
               !.commands = acc.commands \o
                   (IF d.val[2] # 0
                    THEN <<UPDATE_WITH(d.val[2], w.converted), LINK_TO(d.val[2])>>
                    ELSE <<CREATE_WITH(w.converted)>>),
               !.ws = acc.ws \o d.ws \o [i \in 1..Len(w.sink) |-> w.sink[i][3]],
               !.cache = w.cache]

\* the loop body of _str_to_one2many: the commands of one nested record
o2m_item(acc, rows, dg, rec) ==
    LET refs == only_ref_fields(rec)
        sub == IF refs = <<>> THEN [exc |-> "", msg |-> "", subfield |-> ""]
               ELSE referencing_subfield(AsDict(refs))
        d == IF refs = <<>> \/ sub.exc # "" THEN Return(Id(0), <<>>, acc.cache)
             ELSE db_id_for(acc.cache, sub.subfield, AsDict(rec)[sub.subfield])
        w == for_model("line", "raise", d.cache, rows, dg, exclude_ref_fields(rec))
    IN IF sub.exc # "" THEN [acc EXCEPT !.exc = sub.exc, !.msg = sub.msg]
       ELSE IF d.exc # "" THEN [acc EXCEPT !.exc = d.exc, !.msg = d.msg, !.cache = d.cache]
       ELSE IF w.exc # "" THEN [acc EXCEPT !.exc = w.exc, !.msg = w.msg, !.cache = w.cache]
       ELSE [acc EXCEPT
               !.commands = acc.commands \o
                   (IF d.val[2] # 0
                    THEN <<LINK_TO(d.val[2]), UPDATE_WITH(d.val[2], w.converted)>>
                    ELSE <<CREATE_WITH(w.converted)>>),
               !.ws = acc.ws \o d.ws \o [i \in 1..Len(w.sink) |-> w.sink[i][3]],
               !.cache = w.cache]

\* for record in records
RECURSIVE o2m_loop(_, _, _, _)
o2m_loop(acc, rows, dg, records) ==
    IF records = <<>> \/ acc.exc # "" THEN acc
    ELSE o2m_loop(o2m_item(acc, rows, dg, Head(records)), rows, dg, Tail(records))

\* _str_to_one2many without the shorthand of one record of references
str_to_one2many_nosplit(cache, rows, dg, records) ==
    LET r == o2m_loop([commands |-> <<>>, ws |-> <<>>, cache |-> cache,
                       exc |-> "", msg |-> ""], rows, dg, records)
    IN IF r.exc # "" THEN Raise(r.exc, r.msg, r.cache)
       ELSE Return(List(r.commands), r.ws, r.cache)

\* _str_to_one2many(model, field, records)
str_to_one2many(cache, rows, dg, records) ==
    LET short == Len(records) = 1 /\ exclude_ref_fields(records[1]) = <<>>
        sub == IF short THEN referencing_subfield(AsDict(records[1]))
               ELSE [exc |-> "", msg |-> "", subfield |-> ""]
    IN IF sub.exc # "" THEN Raise(sub.exc, sub.msg, cache)
       ELSE LET refs == IF short THEN split(AsDict(records[1])[sub.subfield], ",") ELSE <<>>
                recs == IF short THEN [i \in 1..Len(refs) |-> <<<<sub.subfield, refs[i]>>>>]
                        ELSE records
                r == o2m_loop([commands |-> <<>>, ws |-> <<>>, cache |-> cache,
                               exc |-> "", msg |-> ""], rows, dg, recs)
            IN IF r.exc # "" THEN Raise(r.exc, r.msg, r.cache)
               ELSE Return(List(r.commands), r.ws, r.cache)

call_converter(cache, rows, dg, conv, value) ==
    CASE conv = "boolean" -> str_to_boolean(cache, rows, value)
      [] conv = "float" -> str_to_float(cache, dg, value)
      [] conv = "char" -> str_id(cache, value)
      [] conv = "selection" -> str_to_selection(cache, rows, value)
      [] conv = "date" -> str_to_date(cache, value)
      [] conv = "many2one" -> str_to_many2one(cache, value)
      [] conv = "many2many" -> str_to_many2many(cache, value)
      [] conv = "one2many" -> str_to_one2many(cache, rows, dg, value)
      [] conv = "None" -> Raise("TypeError", "not_callable", cache)

\* ---- the records and the configurations that the import is run on ----
\* no relational column is written during an import
RelIdle ==
    /\ ftype = "none"
    /\ ondelete = "set null"
    /\ domainIds = {}
    /\ ruleIds = {}
    /\ db = [nextId |-> 1, alive |-> {}, inv |-> [r \in RecIds |-> 0],
             rel |-> [p \in Parents \X RecIds |-> 0]]
    /\ last = [id |-> 0, op |-> -1, arg |-> 0, ids |-> <<>>, len |-> 0, err |-> FALSE]

\* texts of a float field: every text of these characters up to MaxLen
FloatChars == {"1", "5", ".", "-", "x"}
FloatTexts == SeqUpTo(FloatChars, MaxLen)

\* digits of the float column: none, or 16 digits with a scale up to MaxScale
DigitsConfigs == {<<>>} \cup {<<16, s>> : s \in 0..MaxScale}

\* texts of a boolean field
BoolTexts ==
    {<<>>, <<"0">>, <<"1">>, <<"2">>, <<"x">>,
     <<"n", "o">>, <<"N", "o">>, <<"y", "e", "s">>, <<"Y", "E", "S">>,
     <<"t", "r", "u", "e">>, <<"T", "r", "u", "e">>,
     <<"f", "a", "l", "s", "e">>, <<"F", "A", "L", "S", "E">>,
     <<"o", "u", "i">>, <<"O", "u", "i">>, <<"n", "o", "n">>,
     <<"v", "r", "a", "i">>, <<"f", "a", "u", "x">>, <<"j", "a">>}

\* a row of ir.translation
Row(type, src, value) == [type |-> type, src |-> src, value |-> value]

\* installed translations of the boolean words: none; a language with its
\* own four words; a language whose word for yes reads "No"; rows of
\* another type or without a value
TransConfigs ==
    {{},
     {Row("code", TrueText, Str(<<"V", "r", "a", "i">>)),
      Row("code", YesText, Str(<<"O", "u", "i">>)),
      Row("code", FalseText, Str(<<"F", "a", "u", "x">>)),
      Row("code", NoText, Str(<<"N", "o", "n">>))},
     {Row("code", YesText, Str(<<"N", "o">>)),
      Row("code", NoText, Str(<<"x">>))},
     {Row("code", TrueText, False),
      Row("model", YesText, Str(<<"j", "a">>)),
      Row("code", NoText, Str(<<"2">>))}}

\* reference texts tried under each key of a nested record
KeyTexts(k) ==
    CASE k = ".id" -> {<<"1">>, <<"2">>, <<"9">>, <<"x">>}
      [] k = "id" -> {<<"a">>, <<"o", ".", "b">>, <<"x">>, <<"b">>,
                      <<"m", ".", "a">>, <<"a", ".">>}
      [] k = NoneKey -> {<<"n">>, <<"d">>, <<"e">>, <<"z">>}
      [] OTHER -> {<<"z">>}
AllKeyTexts == UNION {KeyTexts(k) : k \in SubFields}

\* nested records: every set of keys, every text of each key
NestedRecords ==
    UNION {{f \in [K -> AllKeyTexts] : \A k \in K : f[k] \in KeyTexts(k)} :
           K \in SUBSET SubFields}
PlainRecords == {"id" :> <<"a">>, ".id" :> <<"1">>}

\* values of the many2one field: no record, one record, two records
Many2oneValues ==
    {<<>>} \cup {<<r>> : r \in NestedRecords}
    \cup {<<r, q>> : r \in PlainRecords, q \in PlainRecords}

\* ",".join(refs)
RECURSIVE Join(_)
Join(refs) ==
    IF refs = <<>> THEN <<>>
    ELSE IF Len(refs) = 1 THEN refs[1]
    ELSE refs[1] \o <<",">> \o Join(Tail(refs))

\* values of the many2many field: one record whose key holds up to MaxRefs
\* references, and the shapes that are no such record
Many2manyValues ==
    {<<>>}
    \cup {<<k :> Join(l)>> : <<k, l>> \in
            UNION {{k} \X SeqUpTo(KeyTexts(k), MaxRefs) : k \in REFERENCING_FIELDS}}
    \cup {<<r>> : r \in {<<>>, ("id" :> <<"a">>) @@ ("name" :> <<"z">>),
                         ("id" :> <<"a">>) @@ (".id" :> <<"1">>)}}
    \cup {<<r, q>> : r \in PlainRecords, q \in PlainRecords}

\* items of the nested records of a one2many value: references, and
\* fields of the comodel with texts that convert, warn and fail
RefItems ==
    {<<"id", <<"a">>>>, <<"id", <<"x">>>>, <<"id", <<"a", ",", "o", ".", "b">>>>,
     <<".id", <<"2">>>>, <<NoneKey, <<"d">>>>, <<NoneKey, <<"n", ",", "z">>>>}
FieldItems ==
    {<<"name", <<"z">>>>, <<"name", <<>>>>, <<"qty", <<"1", ".", "5">>>>,
     <<"qty", <<"x">>>>, <<"flag", <<"1">>>>, <<"flag", <<"x">>>>}

\* nested records of up to two items with distinct keys
LineRecords ==
    {<<>>} \cup {<<it>> : it \in RefItems \cup FieldItems}
    \cup {<<it, jt>> : <<it, jt>> \in
            {p \in (RefItems \cup FieldItems) \X (RefItems \cup FieldItems) :
                p[1][1] # p[2][1]}}
RepLineRecords ==
    {<<<<"id", <<"a">>>>>>, <<<<"name", <<"z">>>>>>,
     <<<<".id", <<"2">>>>, <<"qty", <<"1", ".", "5">>>>>>,
     <<<<"id", <<"a", ",", "o", ".", "b">>>>>>, <<<<"qty", <<"x">>>>>>}

\* values of the one2many field: no record, one record, two records
One2manyValues ==
    {<<>>} \cup {<<r>> : r \in LineRecords}
    \cup {<<r, q>> : r \in RepLineRecords, q \in RepLineRecords}

\* keys of a record: the fields of the model and the record's own id
\* texts tried for the selection field
SelTexts ==
    {<<"d">>,
     <<"1">>,
     <<"c">>,
     <<"D">>,
     <<"D", "r">>,
     <<"d", "r">>,
     <<"O", "n">>,
     <<"C">>,
     <<"B", "r">>,
     <<"A", "n">>,
     <<"F">>,
     <<"x">>,
     <<"0", "1">>}

\* installed translations of the labels of the selection: none; a
\* translation of each of two labels, a row without a value and a row of a
\* type that is not read; a translation of the first label that reads as
\* the label of the second item
SelTransConfigs ==
    {{},
     {Row("selection", <<"D", "r">>, Str(<<"B", "r">>)),
      Row("model", <<"O", "n">>, Str(<<"A", "n">>)),
      Row("selection", <<"C">>, False),
      Row("field", <<"C">>, Str(<<"F">>))},
     {Row("selection", <<"D", "r">>, Str(<<"O", "n">>))}}

\* texts tried for the date field
DateTexts ==
    {<<"2", "0", "1", "2", "-", "1", "2", "-", "3", "1">>,
     <<"2", "0", "1", "2", "-", "1", "3", "-", "4", "0">>,
     <<"2", "0", "1", "2", "-", "0", "2", "-", "2", "9">>,
     <<"2", "0", "1", "1", "-", "0", "2", "-", "2", "9">>,
     <<"2", "0", "1", "2", "-", "0", "2", "-", "3", "0">>,
     <<"2", "0", "1", "2", "-", "0", "4", "-", "3", "1">>,
     <<"2", "0", "1", "2", "-", "1", "-", "5">>,
     <<"2", "0", "1", "2", "-", "0", "1", "-", " ", "5">>,
     <<"2", "0", "1", "2", "-", "0", "0", "-", "1", "0">>,
     <<"2", "0", "1", "2", "-", "1", "2", "-", "0", "0">>,
     <<"2", "0", "1", "2", "-", "1", "2", "-", "3", "2">>,
     <<"0", "0", "0", "0", "-", "0", "1", "-", "0", "1">>,
     <<"1", "9", "0", "0", "-", "0", "2", "-", "2", "9">>,
     <<"2", "0", "0", "0", "-", "0", "2", "-", "2", "9">>,
     <<"1", "2", "-", "1", "2", "-", "3", "1">>,
     <<"2", "0", "1", "2", "/", "1", "2", "/", "3", "1">>,
     <<"2", "0", "1", "2", "-", "1", "2", "-", "3", "1", "x">>,
     <<"2", "0", "1", "2", "1", "2", "3", "1">>,
     <<"x">>,
     <<"3", "1", "-", "1", "2", "-", "2", "0", "1", "2">>,
     <<"2", "0", "1", "2", "-", "1", "2", "-", "3", "a">>}

Keys == DOMAIN Fields \cup {"id"}

\* values of a record that holds one field
Values(f) ==
    CASE f = "active" -> BoolTexts
      [] f = "price" -> FloatTexts
      [] f = "partner" -> Many2oneValues
      [] f = "tags" -> Many2manyValues
      [] f = "data" -> {<<>>, <<"k">>}
      [] f = "lines" -> One2manyValues
      [] f = "state" -> SelTexts
      [] f = "day" -> DateTexts
      [] f = "id" -> {<<"r">>}

\* values of a record that holds several fields
RepValues(f) ==
    CASE f = "active" -> {<<>>, <<"1">>, <<"x">>}
      [] f = "price" -> {RawFalse, <<"1", ".", "5">>, <<"x">>}
      [] f = "partner" -> {<<"id" :> <<"a">>>>, <<"id" :> <<"x">>>>, <<NoneKey :> <<"d">>>>}
      [] f = "tags" -> {<<"id" :> <<"a", ",", "o", ".", "b">>>>, <<"id" :> <<"a", ",", "x">>>>}
      [] f = "data" -> {<<>>, <<"k">>}
      [] f = "lines" -> {<<<<<<"id", <<"a">>>>>>>>, <<<<<<"qty", <<"x">>>>>>>>}
      [] f = "state" -> {<<"B", "r">>, <<"x">>}
      [] f = "day" -> {<<"2", "0", "1", "2", "-", "1", "2", "-", "3", "1">>, <<"2", "0", "1", "2", "-", "1", "3", "-", "4", "0">>}
      [] f = "id" -> {<<"r">>}

Records ==
    UNION {{<<<<f, v>>>> : v \in Values(f) \cup {RawNone, RawFalse}} : f \in Keys}
    \cup UNION {{items \in [1..n -> UNION {{<<f, v>> : v \in RepValues(f)} : f \in Keys}] :
                    \A i, j \in 1..n : i # j => items[i][1] # items[j][1]} :
                n \in 2..MaxFields}

HasField(rec, f) == \E i \in 1..Len(rec) : rec[i][1] = f

\* the contents of ir.translation that are tried with a record
Installable(rec) ==
    IF HasField(rec, "state") THEN SelTransConfigs
    ELSE IF HasField(rec, "active") \/ HasField(rec, "lines")
    THEN TransConfigs ELSE {{}}

InitImp ==
    /\ RelIdle
    /\ ColIdle
    /\ NewIdle
    /\ record \in Records
    /\ translations \in Installable(record)
    /\ digits \in IF HasField(record, "price") THEN DigitsConfigs ELSE {<<>>}
    /\ tnx_cache = <<>>
    /\ converted = <<>>
    /\ sink = <<>>
    /\ raised = ""
    /\ stored = <<>>
    /\ pc = "ready"

\* one call of the converter: fn(record, log), in the first import or in
\* a later one
Convert ==
    /\ pc \in {"ready", "again"}
    /\ \E r \in {fn(tnx_cache, translations, digits, record)} :
         /\ converted' = r.converted
         /\ sink' = r.sink
         /\ tnx_cache' = r.cache
         /\ raised' = r.exc
    /\ pc' = (IF pc = "ready" THEN "converted" ELSE "reconverted")
    /\ UNCHANGED <<relvars, colvars, newvars, translations, digits, record, stored>>

\* write of the converted record: the float column encodes its value
WriteFloat ==
    /\ pc = "converted"
    /\ raised = ""
    /\ "price" \in DOMAIN converted
    /\ stored' = symbol_set_float(digits, converted["price"])
    /\ pc' = "written"
    /\ UNCHANGED <<relvars, colvars, newvars, translations, digits, record, tnx_cache, converted, sink, raised>>

\* a later import of the record, after the translations were changed: on
\* the same cursor, whose cache _get_translations reads, or on a new one
NextImport ==
    /\ pc = "converted"
    /\ tnx_cache # <<>>
    /\ translations' \in Installable(record) \ {translations}
    /\ tnx_cache' \in {tnx_cache, <<>>}
    /\ pc' = "again"
    /\ UNCHANGED <<relvars, colvars, newvars, digits, record, converted, sink, raised, stored>>

NextImp == Convert \/ WriteFloat \/ NextImport

SpecImp == InitImp /\ [][NextImp]_vars


\* ------------------------------------------------------------------------
\* Computed, related and sparse columns (fields.py)
\* ------------------------------------------------------------------------
None == <<"none", FALSE>>
\* a list of relational commands handed to a column
CmdList(l) == <<"cmds", l>>
\* list.remove(x): without the first x
RECURSIVE RemoveFirst(_, _)
RemoveFirst(l, x) ==
    IF l = <<>> THEN <<>>
    ELSE IF Head(l) = x THEN Tail(l)
    ELSE <<Head(l)>> \o RemoveFirst(Tail(l), x)
\* the state that a call works on
ColState == [table |-> table, cells |-> cells, exist |-> exist, nextco |-> nextco]

\* ---- related ----
\* the chains f1..fn of the related columns of the model; their type is
\* the type of fn
RelatedArgs ==
    {<<"val">>, <<"link", "val">>, <<"link", "link", "val">>, <<"link", "link">>}
RelatedType(arg) == IF arg[Len(arg)] = "link" THEN "many2one" ELSE "char"
AllButLast(arg) == SubSeq(arg, 1, Len(arg) - 1)
\* name_get of a record of the model
NameOf(id) == <<"n">> \o NatText(id)

\* for field in self.arg[:-1]: value = value[field][:1], on the record id
\* (0 is the empty recordset, whose relational fields are empty as well)
RECURSIVE traverse(_, _, _)
traverse(tab, id, path) ==
    IF path = <<>> THEN id
    ELSE IF id = 0 THEN 0
    ELSE traverse(tab, tab[id][Head(path)], Tail(path))

\* value[field] on a recordset of at most one record: the null value of
\* the field on the empty recordset
field_of(tab, id, field) ==
    IF id # 0 THEN tab[id][field]
    ELSE IF field = "link" THEN 0 ELSE False

\* related._related_read(obj, cr, uid, ids, field_name, args)
related_read(tab, ids, arg) ==
    [id \in Range(ids) |->
        LET value == field_of(tab, traverse(tab, id, AllButLast(arg)), arg[Len(arg)]) IN
        IF RelatedType(arg) = "many2one"
        THEN IF value = 0 THEN False ELSE <<"pair", value, NameOf(value)>>
        ELSE value]

\* _related_write that writes on the source record
RECURSIVE related_write_here(_, _, _, _)
related_write_here(tab, ids, arg, values) ==
    IF ids = <<>> THEN tab
    ELSE related_write_here([tab EXCEPT ![Head(ids)][arg[Len(arg)]] = values],
                            Tail(ids), arg, values)

\* related._related_write(obj, cr, uid, ids, field_name, values, args)
RECURSIVE related_write(_, _, _, _)
related_write(tab, ids, arg, values) ==
    IF ids = <<>> THEN tab
    ELSE LET instance == traverse(tab, Head(ids), AllButLast(arg)) IN
         related_write(IF instance # 0
                       THEN [tab EXCEPT ![instance][arg[Len(arg)]] = values]
                       ELSE tab,
                       Tail(ids), arg, values)

\* ---- computed column ----
\* an inverse function of a computed column of the model: it stores the
\* value in the field val of the record
store_val(tab, id, value) == [tab EXCEPT ![id].val = value]

\* function.set(cr, obj, id, name, value): fnct_inv tells whether the
\* column has an inverse function
function_set(fnct_inv, tab, id, value) ==
    IF fnct_inv THEN store_val(tab, id, value) ELSE tab

\* ---- sparse ----
\* the sparse fields of the model and their types
SparseFields ==
    ("s" :> "char") @@ ("m" :> "many2one") @@ ("x" :> "many2many")
    @@ ("o" :> "one2many")

\* dict.get(k, default) and dict.pop(k, None)
Get(d, k, default) == IF k \in DOMAIN d THEN d[k] ELSE default
Pop(d, k) == [x \in DOMAIN d \ {k} |-> d[x]]

\* relation_obj.exists(cr, SUPERUSER_ID, ids): those of the ids that exist
exists(ex, ids) == SelectSeq(ids, LAMBDA i : i \in ex)

\* the loop of convert_value over the commands of a one2many value; acc
\* holds the list read_value, the comodel and the exception raised, if any
RECURSIVE convert_o2m(_, _)
convert_o2m(acc, value) ==
    IF value = <<>> \/ acc.exc # "" THEN acc
    ELSE LET vals == Head(value) IN
         IF vals[1] \notin {0, 1, 2} THEN [acc EXCEPT !.exc = "AssertionError"]
         ELSE convert_o2m(
                CASE vals[1] = 0 ->
                        [acc EXCEPT !.val = Append(acc.val, acc.nextco),
                                    !.exist = acc.exist \cup {acc.nextco},
                                    !.nextco = acc.nextco + 1]
                  [] vals[1] = 1 -> acc
                  [] vals[1] = 2 ->
                        IF vals[2] \in Range(acc.val)
                        THEN [acc EXCEPT !.val = RemoveFirst(acc.val, vals[2]),
                                         !.exist = acc.exist \ {vals[2]}]
                        ELSE [acc EXCEPT !.exist = acc.exist \ {vals[2]},
                                         !.exc = "ValueError"],
                Tail(value))

\* sparse.convert_value(obj, cr, uid, record, value, read_value) for a
\* logical field of type ty
convert_value(ty, ex, nxt, value, read_value) ==
    LET keep == [val |-> value, exist |-> ex, nextco |-> nxt, exc |-> ""] IN
    CASE ty = "many2many" ->
            IF value[2] = <<>> THEN [keep EXCEPT !.val = List(<<>>)]
            ELSE IF value[2][1][1] # 6 THEN [keep EXCEPT !.exc = "AssertionError"]
            ELSE [keep EXCEPT !.val = List(value[2][1][3])]
      [] ty = "one2many" ->
            LET start == IF read_value[1] = "list" THEN read_value[2] ELSE <<>>
                r == convert_o2m([keep EXCEPT !.val = start], value[2])
            IN [r EXCEPT !.val = List(r.val)]
      [] OTHER -> keep

\* the loop of _sparse_write over the records that are left; cache holds
\* the cells as the first read of the serialization field found them, and
\* stale tells whether later reads are served from it
RECURSIVE sparse_write_loop(_, _, _, _, _, _, _)
sparse_write_loop(st, cache, todo, ids, field_name, value, stale) ==
    IF todo = <<>> \/ st.exc # "" THEN st
    ELSE LET rec == Head(todo)
             serialized == IF stale THEN cache[rec] ELSE st.cells[rec]
             c == IF value = None
                  THEN [val |-> None, exist |-> st.exist, nextco |-> st.nextco, exc |-> ""]
                  ELSE convert_value(SparseFields[field_name], st.exist, st.nextco,
                                     value, Get(serialized, field_name, None))
             new == IF value = None THEN Pop(serialized, field_name)
                    ELSE SetItem(serialized, field_name, c.val)
         IN IF c.exc # ""
            THEN [st EXCEPT !.exist = c.exist, !.nextco = c.nextco, !.exc = c.exc]
            ELSE sparse_write_loop(
                    [st EXCEPT !.cells = [r \in DOMAIN st.cells |->
                                             IF r \in Range(ids) THEN new ELSE st.cells[r]],
                               !.exist = c.exist, !.nextco = c.nextco],
                    [cache EXCEPT ![rec] = new],
                    Tail(todo), ids, field_name, value, stale)

\* sparse._sparse_write(obj, cr, uid, ids, field_name, value, args)
sparse_write(st, ids, field_name, value, stale) ==
    sparse_write_loop([cells |-> st.cells, exist |-> st.exist, nextco |-> st.nextco,
                       exc |-> ""],
                      st.cells, ids, ids, field_name, value, stale)

\* the value that _sparse_read gives for one field of one record, without
\* the check of existence
sparse_value_raw(ex, serialized, field_name) ==
    LET value == Get(serialized, field_name, False) IN
    IF SparseFields[field_name] \in {"one2many", "many2many"}
    THEN IF value[1] = "list" THEN value ELSE List(<<>>)
    ELSE value

\* the value that _sparse_read gives for one field of one record
sparse_value(ex, serialized, field_name) ==
    LET value == Get(serialized, field_name, False) IN
    IF SparseFields[field_name] \in {"one2many", "many2many"}
    THEN IF value[1] = "list" /\ value[2] # <<>>
         THEN List(exists(ex, value[2])) ELSE List(<<>>)
    ELSE IF value[1] = "int" /\ SparseFields[field_name] = "many2one"
              /\ exists(ex, <<value[2]>>) = <<>>
         THEN False
         ELSE value

\* sparse._sparse_read(obj, cr, uid, ids, field_names, args)
sparse_read(st, ids, field_names) ==
    [id \in Range(ids) |->
        [k \in Range(field_names) |-> sparse_value(st.exist, st.cells[id], k)]]

\* ---- calls on the columns ----
\* the values of the field val
ValValues == {False, Str(<<"a">>), Str(<<"b">>)}
\* lists of distinct record ids
IdSeqs == {l \in SeqUpTo(Rows, MaxRows) : l # <<>> /\ \A i, j \in 1..Len(l) : i # j => l[i] # l[j]}
\* cells that the records start with
CellConfigs ==
    {<<>>,
     ("s" :> Str(<<"a">>)) @@ ("m" :> Id(1)) @@ ("x" :> List(<<1, 3>>)),
     ("s" :> Str(<<"b">>)) @@ ("m" :> Id(2)) @@ ("o" :> List(<<2, 1>>))}
\* values written to the sparse field k
SparseValues(k) ==
    CASE k = "s" -> {None, Str(<<"a">>), Str(<<"c">>)}
      [] k = "m" -> {None, Id(1), Id(2)}
      [] k = "x" -> {None, CmdList(<<>>), CmdList(<<REPLACE_WITH(<<2, 1>>)>>),
                     CmdList(<<LINK_TO(1)>>)}
      [] k = "o" -> {None, CmdList(<<>>), CmdList(<<CREATE>>), CmdList(<<DELETE(1)>>),
                     CmdList(<<UPDATE(2), CREATE>>), CmdList(<<LINK_TO(1)>>)}
\* lists of field names read at once
NameLists == {<<k>> : k \in DOMAIN SparseFields} \cup {<<"s", "m", "x", "o">>}
\* the comodel records that a value creates for one record
Creates(value) ==
    IF value[1] = "cmds"
    THEN Cardinality({i \in 1..Len(value[2]) : value[2][i][1] = 0}) ELSE 0

InitCol ==
    /\ RelIdle /\ ImpIdle /\ NewIdle
    /\ focus \in {"computed", "related", "sparse"}
    /\ IF focus = "sparse"
       THEN /\ table = [r \in Rows |-> [link |-> 0, val |-> False]]
            /\ cells \in [Rows -> CellConfigs]
            /\ exist \in SUBSET (1..2)
            /\ nextco = 3
       ELSE /\ table \in [Rows -> [link : {0} \cup Rows, val : ValValues]]
            /\ cells = [r \in Rows |-> <<>>]
            /\ exist = {}
            /\ nextco = 1
    /\ outcome = Before @@ NoOutcome
    /\ stage = "start"

\* a behaviour is one write, one read, or a write and the read of what it
\* left; a read of a related column finds every table at the start
MayWrite == stage = "start"
MayRead == stage = "start" \/ (stage = "written" /\ focus = "sparse")
\* lists of record ids that are read at once
ReadSeqs == {<<r>> : r \in Rows} \cup {[i \in 1..MaxRows |-> i]}

\* column.set(cr, obj, id, name, value) on a computed column
FunctionSet ==
    /\ focus = "computed" /\ MayWrite
    /\ \E fnct_inv \in BOOLEAN, id \in Rows, value \in ValValues :
         /\ table' = function_set(fnct_inv, table, id, value)
         /\ outcome' = Before @@ [NoOutcome EXCEPT !.op = "set", !.inv = fnct_inv, !.ids = <<id>>,
                                         !.val = value]
    /\ stage' = "written"
    /\ UNCHANGED <<relvars, impvars, newvars, cells, exist, nextco, focus>>

RelatedWrite ==
    /\ focus = "related" /\ MayWrite
    /\ \E arg \in RelatedArgs, ids \in IdSeqs :
       \E values \in IF RelatedType(arg) = "many2one" THEN {0} \cup Rows ELSE ValValues :
         /\ table' = related_write(table, ids, arg, values)
         /\ outcome' = Before @@ [NoOutcome EXCEPT !.op = "related_write", !.inv = TRUE,
                                         !.ids = ids, !.arg = arg, !.val = values]
    /\ stage' = "written"
    /\ UNCHANGED <<relvars, impvars, newvars, cells, exist, nextco, focus>>

RelatedRead ==
    /\ focus = "related" /\ MayRead
    /\ \E arg \in RelatedArgs, ids \in ReadSeqs :
         outcome' = Before @@ [NoOutcome EXCEPT !.op = "related_read", !.ids = ids, !.arg = arg,
                                      !.res = related_read(table, ids, arg)]
    /\ stage' = "read"
    /\ UNCHANGED <<relvars, impvars, newvars, table, cells, exist, nextco, focus>>

SparseWrite ==
    /\ focus = "sparse" /\ MayWrite
    /\ \E k \in DOMAIN SparseFields, ids \in IdSeqs, stale \in BOOLEAN :
       \E value \in SparseValues(k) :
         /\ nextco + Creates(value) * Len(ids) <= MaxCo + 1
         /\ \E r \in {sparse_write(ColState, ids, k, value, stale)} :
              /\ cells' = r.cells
              /\ exist' = r.exist
              /\ nextco' = r.nextco
              /\ outcome' = Before @@ [NoOutcome EXCEPT !.op = "sparse_write", !.inv = TRUE,
                                              !.ids = ids, !.key = k, !.val = value,
                                              !.stale = stale, !.exc = r.exc]
    /\ stage' = "written"
    /\ UNCHANGED <<relvars, impvars, newvars, table, focus>>

SparseRead ==
    /\ focus = "sparse" /\ MayRead
    /\ \E ids \in ReadSeqs, names \in NameLists :
         outcome' = Before @@ [NoOutcome EXCEPT !.op = "sparse_read", !.ids = ids, !.names = names,
                                      !.res = sparse_read(ColState, ids, names)]
    /\ stage' = "read"
    /\ UNCHANGED <<relvars, impvars, newvars, table, cells, exist, nextco, focus>>

NextCol == FunctionSet \/ RelatedWrite \/ RelatedRead \/ SparseWrite \/ SparseRead

SpecCol == InitCol /\ [][NextCol]_vars

\* ------------------------------------------------------------------------
\* Column descriptors: __init__, to_field_args and new
\* ------------------------------------------------------------------------
\* values of the keyword arguments of a column: string, manual, size (0 for
\* None), priority, selectable, read (the groups that may read, empty for
\* False) and _prefetch
Strings == {"a", "b"}
Sizes == {0, 8}
Priorities == {0, 5}
Groups == {<<>>, <<"g">>}
Args ==
    [string : Strings, manual : BOOLEAN, size : Sizes, priority : Priorities,
     selectable : BOOLEAN, read : Groups, prefetch : BOOLEAN]

\* _column.__init__(**args) of a class with _classic_write, here char: the
\* arguments become the attributes; a manual column is not prefetched
column_init(args) ==
    [cls |-> "char", string |-> args.string, manual |-> args.manual, size |-> args.size,
     priority |-> args.priority, selectable |-> args.selectable, read |-> args.read,
     prefetch |-> args.prefetch /\ ~args.manual]

\* function.__init__(fnct, **args) without fnct_search and store: the
\* column is neither selectable nor prefetched
function_init(args) ==
    [cls |-> "function", string |-> args.string, manual |-> args.manual,
     size |-> args.size, priority |-> args.priority, selectable |-> FALSE,
     read |-> args.read, prefetch |-> FALSE]

\* to_field_args(): string and manual of the base items, and size of the
\* items that are kept when they are true
to_field_args(d) ==
    [string |-> d.string, manual |-> d.manual]
    @@ (IF d.size # 0 THEN [size |-> d.size] ELSE <<>>)

\* _column.new(_computed_field, **args) on the descriptor descs[self]: what
\* it returns and the descriptors that exist then
column_new(ds, self, computed, args) ==
    LET column == column_init(args) IN
    IF to_field_args(ds[self]) = to_field_args(column)
    THEN [descs |-> ds, ret |-> self]
    ELSE [descs |-> Append(ds, column), ret |-> Len(ds) + 1]

\* function.new(_computed_field, **args): a column of the class of the
\* type when the field is computed, a copy of self otherwise
function_new(ds, self, computed, args) ==
    IF computed THEN [descs |-> Append(ds, column_init(args)), ret |-> Len(ds) + 1]
    ELSE [descs |-> Append(ds, ds[self]), ret |-> Len(ds) + 1]

\* one descriptor, of a plain or of a function column
InitNew ==
    /\ RelIdle /\ ImpIdle /\ ColIdle
    /\ descs \in {<<column_init(a)>> : a \in Args} \cup {<<function_init(a)>> : a \in Args}
    /\ call = NoCall

NewCall(self, r, computed, args) ==
    /\ descs' = r.descs
    /\ call' = [self |-> self, computed |-> computed, args |-> args, ret |-> r.ret]
    /\ UNCHANGED <<relvars, impvars, colvars>>

\* column.new(_computed_field=computed, **args) on a plain column
ColumnNew ==
    /\ call = NoCall /\ descs # <<>> /\ descs[1].cls = "char"
    /\ \E args \in Args, computed \in BOOLEAN :
         NewCall(1, column_new(descs, 1, computed, args), computed, args)

\* column.new(_computed_field=computed, **args) on a function column
FunctionNew ==
    /\ call = NoCall /\ descs # <<>> /\ descs[1].cls = "function"
    /\ \E args \in Args, computed \in BOOLEAN :
         NewCall(1, function_new(descs, 1, computed, args), computed, args)

NextNew == ColumnNew \/ FunctionNew

SpecNew == InitNew /\ [][NextNew]_vars


\* ------------------------------------------------------------------------
\* Claims about the relational commands (checked under SpecRel)
\* ------------------------------------------------------------------------
\* the last call was the single command with tag op and did not raise
Did(op) == last.op = op /\ last.len = 1 /\ ~last.err
\* the records linked to id that the access rules hide from the user
\* (many2many.set's unlink_all leaves their rows alone)
Hidden(st, id) ==
    IF ftype = "many2many" THEN {r \in LinkSet(st, id) : r \notin ruleIds} ELSE {}

Expand(ids) == <<DELETE_ALL>> \o [i \in 1..Len(ids) |-> LINK_TO(ids[i])]

\* C2: REPLACE_WITH(ids) leaves the tables as DELETE_ALL followed by
\* LINK_TO(i) for each i of ids does, for every prior state, deletion
\* policy and static domain.
C2_ReplaceIsDeleteAllThenLink ==
    [][Did(6)' =>
         LET r == column_set(db, last'.id, Expand(last'.ids)) IN
         ~r.err /\ db' = r.st]_vars

\* C3: after LINK_TO(id) has been applied, applying it again changes no
\* table, inserts no relation row and performs no write.
C3_LinkIdempotent ==
    [][Did(4)' =>
         /\ column_set(db', last'.id, <<LINK_TO(last'.arg)>>)
              = [st |-> db', err |-> FALSE, nw |-> 0]
         /\ column_set(db, last'.id, <<LINK_TO(last'.arg), LINK_TO(last'.arg)>>).st
              = db'
         /\ \A p \in Parents \X RecIds : db'.rel[p] <= 1]_vars

\* a LINK_TO has linked a record that was not linked to the parent
C3_Witness ==
    /\ Did(4)
    /\ last.arg \in LinkSet(db, last.id)
    /\ \E r \in RecIds \ {last.arg} : r \in LinkSet(db, last.id)

\* the commands of a list applied by one call of set() each, in list order
RECURSIVE OneByOne(_, _, _)
OneByOne(s, id, values) ==
    IF values = <<>> \/ s.err THEN s
    ELSE LET r == column_set(s.st, id, <<Head(values)>>) IN
         OneByOne([st |-> r.st, err |-> r.err, nw |-> s.nw + r.nw], id, Tail(values))

\* C4: one call of set() with a command list ends in the state reached by
\* applying its commands alone, one call each, in list order.  (Every table
\* content is reached with an empty last call, which changes nothing, so the
\* lists are tried where last.len = 0.)
C4_ListOrder ==
    last.len = 0 =>
        \A id \in Parents, values \in CmdLists :
            Fits(db, values) =>
                column_set(db, id, values)
                  = OneByOne([st |-> db, err |-> FALSE, nw |-> 0], id, values)

\* a list of two commands has acted whose two orders end in different states
C4_Witness ==
    /\ last.len = 2 /\ ~last.err
    /\ \E id \in Parents, r \in RecIds :
         /\ r \in db.alive
         /\ db = column_set(db, id, <<LINK_TO(r), DELETE_ALL>>).st
         /\ db # column_set(db, id, <<DELETE_ALL, LINK_TO(r)>>).st
         /\ ~column_set(db, id, <<DELETE_ALL, LINK_TO(r)>>).err

\* ---- DELETE_ALL and FORGET ----
\* the records that DELETE_ALL on the parent id is about: those whose
\* inverse key is id and that are in the domain of the column
InDomainOf(st, id) == {r \in st.alive : st.inv[r] = id /\ r \in domainIds}

\* C23: DELETE_ALL of one2many.set on a parent deletes, when the inverse
\* field cascades, the records of the parent that are in the domain of the
\* column, and otherwise clears their inverse key and leaves them in
\* existence; every other record is as it was
C23_DeleteAllPolicy ==
    [][(Did(5)' /\ ftype = "one2many") =>
         LET hit == InDomainOf(db, last'.id) IN
         /\ db'.alive = (IF ondelete = "cascade" THEN db.alive \ hit ELSE db.alive)
         /\ \A r \in RecIds :
               db'.inv[r] = (IF r \in hit THEN 0 ELSE db.inv[r])]_vars

\* after a DELETE_ALL under the set-null policy a record outside the domain
\* is still linked to the parent and a record of the domain is linked to
\* none
C23_Witness ==
    /\ Did(5) /\ ftype = "one2many" /\ ondelete = "set null"
    /\ \E r \in db.alive : db.inv[r] = last.id /\ r \notin domainIds
    /\ \E r \in db.alive : db.inv[r] = 0 /\ r \in domainIds

\* C24 (as stated): after FORGET(id) of one2many.set or many2many.set the
\* related record exists if it did and only its link to the parent is gone
C24_ForgetKeepsRecord ==
    [][Did(3)' =>
         /\ db'.alive = db.alive
         /\ \A r \in RecIds \ {last'.arg} : db'.inv[r] = db.inv[r]
         /\ \A p \in Parents \X RecIds : p # <<last'.id, last'.arg>> => db'.rel[p] = db.rel[p]
         /\ last'.arg \notin LinkSet(db', last'.id)]_vars

\* C24 (amended): FORGET(id) of many2many.set, and of one2many.set on a
\* record of the parent when the inverse field does not cascade, takes the
\* link to the parent away and nothing else; one2many.set on a record of
\* the parent whose inverse field cascades deletes the record
C24_ForgetByPolicy ==
    [][Did(3)' =>
         LET r == last'.arg
             id == last'.id
         IN /\ ftype = "many2many" =>
                 /\ db'.alive = db.alive /\ db'.inv = db.inv
                 /\ \A p \in Parents \X RecIds :
                       db'.rel[p] = (IF p = <<id, r>> THEN 0 ELSE db.rel[p])
            /\ (ftype = "one2many" /\ r \in db.alive /\ db.inv[r] = id) =>
                 /\ db'.alive = (IF ondelete = "cascade" THEN db.alive \ {r} ELSE db.alive)
                 /\ \A q \in RecIds : db'.inv[q] = (IF q = r THEN 0 ELSE db.inv[q])]_vars

\* a FORGET of one2many.set under the cascade policy: the record is gone,
\* another record of the parent is still there
C24_Witness ==
    /\ Did(3) /\ ftype = "one2many" /\ ondelete = "cascade"
    /\ last.arg \notin db.alive /\ last.arg < db.nextId
    /\ \E q \in db.alive : db.inv[q] = last.id

\* C26: the relation table of a many2many column holds at most one row for
\* a pair of a parent and a related record, whatever lists of commands
\* set() was called with
C26_NoDuplicatePair ==
    ftype = "many2many" => \A p \in Parents \X RecIds : db.rel[p] <= 1

\* a REPLACE_WITH whose list repeats an id has linked the record once
C26_Witness ==
    /\ Did(6) /\ ftype = "many2many"
    /\ Len(last.ids) = 2 /\ last.ids[1] = last.ids[2]
    /\ db.rel[<<last.id, last.ids[1]>>] = 1

\* lists of the commands FORGET, LINK_TO, DELETE_ALL and REPLACE_WITH
LinkLists == {values \in CmdLists : \A i \in 1..Len(values) : values[i][1] \in {3, 4, 5, 6}}

\* C29: many2many.set on a parent with a list of FORGET, LINK_TO,
\* DELETE_ALL and REPLACE_WITH commands, whether it raises or not, leaves
\* the rows of every other parent and the existence of every related
\* record as they were.  (Every table content is reached with an empty
\* last call, so the lists are tried where last.len = 0.)
C29_OtherParentsUntouched ==
    (ftype = "many2many" /\ last.len = 0) =>
        \A id \in Parents, values \in LinkLists :
            LET r == column_set(db, id, values) IN
            /\ r.st.alive = db.alive /\ r.st.nextId = db.nextId /\ r.st.inv = db.inv
            /\ \A p \in Parents \X RecIds : p[1] # id => r.st.rel[p] = db.rel[p]

\* a REPLACE_WITH has emptied the links of a parent while the other parent
\* is linked to a record
C29_Witness ==
    /\ Did(6) /\ ftype = "many2many" /\ last.ids = <<>>
    /\ LinkSet(db, last.id) = {}
    /\ \E q \in Parents \ {last.id} : LinkSet(db, q) # {}

\* C30: FORGET(r) of one2many.set on a parent that r is not linked to
\* leaves r as it was: it exists if it did and keeps its inverse key
C30_ForgetOfStranger ==
    [][(Did(3)' /\ ftype = "one2many" /\ db.inv[last'.arg] # last'.id) =>
         /\ db'.alive = db.alive
         /\ db'.inv = db.inv]_vars

\* ------------------------------------------------------------------------
\* Claims about the import converter (checked under SpecImp)
\* ------------------------------------------------------------------------
\* the converter has been called on the record
Done == pc \in {"converted", "written"}
\* the record holds the field f and nothing else; Val is its raw value
Only(f) == Len(record) = 1 /\ record[1][1] = f
Val == record[1][2]
\* the call returned, and reported one fatal error, for the field f
OneError(f) ==
    /\ raised = ""
    /\ Len(sink) = 1 /\ sink[1][1] = f /\ sink[1][2] = "ValueError"
    /\ f \notin DOMAIN converted
\* the record without its i-th item
Without(rec, i) == SubSeq(rec, 1, i - 1) \o SubSeq(rec, i + 1, Len(rec))
\* the conversion of the i-th item of the record raises a fatal error
Fails(i) ==
    /\ record[i][1] \in DOMAIN Fields
    /\ ~Falsy(record[i][2])
    /\ call_converter(<<>>, translations, digits,
                      to_field(Fields[record[i][1]]), record[i][2]).exc = "ValueError"

\* C5: when the conversion of one field raises a fatal conversion error, the
\* error is in the sink against that field, the field is absent from the
\* result, the other fields are converted and reported as if the failing
\* field had not been there, and the call of the converter does not raise
C5_FieldErrorNotFatal ==
    Done => \A i \in 1..Len(record) : Fails(i) =>
        LET f == record[i][1]
            o == fn(<<>>, translations, digits, Without(record, i))
        IN /\ raised = ""
           /\ \E e \in 1..Len(sink) : sink[e][1] = f /\ sink[e][2] = "ValueError"
           /\ f \notin DOMAIN converted
           /\ converted = o.converted
           /\ SelectSeq(sink, LAMBDA e : e[1] # f) = o.sink

\* C6 (as stated): a many2one value whose nested record holds two or more
\* of the reference sub-fields fails with the ambiguous-specification error
C6_TwoRefsAmbiguous ==
    (Done /\ Only("partner") /\ Len(Val) = 1
      /\ Cardinality(DOMAIN Val[1] \cap REFERENCING_FIELDS) >= 2)
    => OneError("partner") /\ sink[1][3] = "ambiguous_specification"

\* C6 (amended): such a value always fails and never resolves to an id; the
\* error is the ambiguous-specification error when the record holds
\* reference sub-fields only, and the cannot-create-indirectly error when
\* it also holds another sub-field
C6_TwoRefsFail ==
    (Done /\ Only("partner") /\ Len(Val) = 1
      /\ Cardinality(DOMAIN Val[1] \cap REFERENCING_FIELDS) >= 2)
    => /\ OneError("partner")
       /\ sink[1][3] = IF DOMAIN Val[1] \subseteq REFERENCING_FIELDS
                       THEN "ambiguous_specification" ELSE "indirect_many2one"

\* a record with an external id and a database id got the ambiguous error
C6_Witness ==
    /\ Done /\ Only("partner") /\ Len(Val) = 1
    /\ DOMAIN Val[1] = {"id", ".id"}
    /\ OneError("partner") /\ sink[1][3] = "ambiguous_specification"

\* exactly one nested record that holds exactly one key, a reference sub-field
WellShaped(v) ==
    /\ Len(v) = 1
    /\ Cardinality(DOMAIN v[1]) = 1
    /\ DOMAIN v[1] \subseteq REFERENCING_FIELDS

\* C7 (as stated): a many2one value converts only when it is one nested
\* record with one key that is a reference sub-field; every other shape,
\* zero nested records included, gives a fatal error in the sink and no
\* exception leaves the converter
C7_Many2oneShape ==
    (Done /\ Only("partner") /\ Val \notin {RawNone, RawFalse}) =>
        /\ ("partner" \in DOMAIN converted => WellShaped(Val))
        /\ (~WellShaped(Val) => OneError("partner"))

\* C7 (amended): zero nested records are an empty value, converted to False
\* with nothing reported; every other shape that is not one record with one
\* reference key gives a fatal error in the sink, and only a well-shaped
\* value resolves to an id; no exception leaves the converter
C7_Many2oneShapeAmended ==
    (Done /\ Only("partner")) =>
        /\ raised = ""
        /\ (Falsy(Val) => converted = ("partner" :> False) /\ sink = <<>>)
        /\ (~Falsy(Val) /\ ~WellShaped(Val) => OneError("partner"))
        /\ ("partner" \in DOMAIN converted /\ converted["partner"] # False
              => ~Falsy(Val) /\ WellShaped(Val))

\* two nested records were handed in and the field got its fatal error
C7_Witness ==
    /\ Done /\ Only("partner") /\ Len(Val) = 2
    /\ OneError("partner")

\* the words of the boolean converter and their installed translations
TrueWords ==
    {<<"1">>, TrueText, YesText}
    \cup {lower(t.value[2]) : t \in {u \in translations :
            u.type = "code" /\ u.src \in {TrueText, YesText} /\ u.value # False}}
FalseWords ==
    {<<>>, <<"0">>, FalseText, NoText}
    \cup {lower(t.value[2]) : t \in {u \in translations :
            u.type = "code" /\ u.src \in {FalseText, NoText} /\ u.value # False}}

\* C8 (as stated): "", "0", "false", "no" in any letter case convert to
\* false with no warning, "1", "true", "yes" to true with no warning, every
\* other text to true with exactly one warning, whatever is translated
C8_BooleanTexts ==
    (Done /\ Only("active") /\ Val \notin {RawNone, RawFalse}) =>
        /\ raised = ""
        /\ IF lower(Val) \in {<<>>, <<"0">>, FalseText, NoText}
           THEN converted = ("active" :> Bool(FALSE)) /\ sink = <<>>
           ELSE IF lower(Val) \in {<<"1">>, TrueText, YesText}
           THEN converted = ("active" :> Bool(TRUE)) /\ sink = <<>>
           ELSE /\ converted = ("active" :> Bool(TRUE))
                /\ Len(sink) = 1 /\ sink[1][2] = "ImportWarning"

\* C8 (amended): the installed translations of true/yes count as true and
\* those of false/no as false, in any letter case and with no warning; the
\* true words are looked at first; every other text converts to true with
\* exactly one warning
C8_BooleanTextsAmended ==
    (Done /\ Only("active") /\ Val \notin {RawNone, RawFalse}) =>
        /\ raised = ""
        /\ IF Val = <<>>
           THEN converted = ("active" :> Bool(FALSE)) /\ sink = <<>>
           ELSE IF lower(Val) \in TrueWords
           THEN converted = ("active" :> Bool(TRUE)) /\ sink = <<>>
           ELSE IF lower(Val) \in FalseWords
           THEN converted = ("active" :> Bool(FALSE)) /\ sink = <<>>
           ELSE /\ converted = ("active" :> Bool(TRUE))
                /\ sink = <<<<"active", "ImportWarning", "unknown_boolean">>>>

\* a translated word for no was converted to false without a warning
C8_Witness ==
    /\ Done /\ Only("active")
    /\ Val = <<"n", "o", "n">> /\ translations # {}
    /\ converted = ("active" :> Bool(FALSE)) /\ sink = <<>>

\* the scale of the float column and the unit of its last decimal place
Scale == digits[2]
Unit == Pow10(FracDigits - Scale)
Abs(n) == IF n < 0 THEN -n ELSE n

\* C9 (as stated): converting a numeric text for a float field of scale s
\* yields the value rounded to s decimal places with no warning
C9_FloatRounded ==
    (Done /\ Only("price") /\ IsFloatText(Val) /\ digits # <<>>) =>
        /\ raised = "" /\ sink = <<>>
        /\ "price" \in DOMAIN converted
        /\ NumValue(converted["price"][2]) % Unit = 0

\* C9 (amended): the converter yields the number that the text writes,
\* unrounded and with no warning; the float column rounds it to s decimal
\* places (half away from zero) and writes it with s decimals when the value
\* is written, and the text it wrote converts and writes to the same number
C9_FloatRoundedOnWrite ==
    /\ (Done /\ Only("price") /\ IsFloatText(Val)) =>
          /\ raised = "" /\ sink = <<>>
          /\ converted = ("price" :> Float(FloatOf(Val)))
    /\ (pc = "written" /\ Only("price") /\ IsFloatText(Val) /\ digits # <<>>) =>
          LET v == NumValue(converted["price"][2])
              w == NumValue(FloatOf(stored[2]))
              again == symbol_set_float(digits, str_to_float(<<>>, digits, stored[2]).val)
          IN /\ IsFloatText(stored[2])
             /\ Len(FloatParts(stored[2]).fp) = Scale
             /\ w % Unit = 0
             /\ 2 * Abs(w - v) <= Unit
             /\ (2 * Abs(w - v) = Unit => Abs(w) > Abs(v))
             /\ NumValue(FloatOf(again[2])) = w

\* "1.15" was converted to 1.15 and written at scale 1 as "1.2"
C9_Witness ==
    /\ pc = "written" /\ Only("price")
    /\ Val = <<"1", ".", "1", "5">> /\ digits = <<16, 1>>
    /\ converted["price"] = Float(FloatOf(<<"1", ".", "1", "5">>))
    /\ stored = Str(<<"1", ".", "2">>)

\* the references of a many2many value under the key k
Refs(k) == split(Val[1][k], ",")

\* C10: a many2many value given as a comma-separated list of references
\* converts to exactly one REPLACE_WITH command with the resolved ids in
\* input order when every reference resolves; when one does not, the field
\* gets a fatal error in the sink and no command list is in the result
C10_Many2manyAllOrNothing ==
    (Done /\ Only("tags") /\ WellShaped(Val)) =>
        \A k \in DOMAIN Val[1] :
            LET rs == [i \in 1..Len(Refs(k)) |-> db_id_for(<<>>, k, Refs(k)[i])] IN
            IF \A i \in 1..Len(rs) : rs[i].exc = ""
            THEN /\ raised = ""
                 /\ converted = ("tags" :> List(<<<<6, 0, [i \in 1..Len(rs) |-> rs[i].val[2]]>>>>))
                 /\ \A e \in 1..Len(sink) : sink[e][2] = "ImportWarning"
            ELSE OneError("tags")

\* of two references the first resolved and the second did not: the field
\* got its fatal error and no command
C10_Witness ==
    /\ Done /\ Only("tags") /\ WellShaped(Val)
    /\ Val[1] = ("id" :> <<"a", ",", "x">>)
    /\ OneError("tags") /\ sink[1][3] = "no_matching_record"

\* ---- one2many values ----
\* the value of the field was converted: it is in the result
Converted(f) == raised = "" /\ f \in DOMAIN converted
\* the records that the one-record shorthand makes of a one2many value: a
\* single record of reference sub-fields only stands for one record per
\* comma-separated item of its reference
Shorthand(v) == Len(v) = 1 /\ exclude_ref_fields(v[1]) = <<>> /\ Len(v[1]) = 1
Expanded(v) ==
    IF Shorthand(v)
    THEN LET items == split(v[1][1][2], ",") IN
         [i \in 1..Len(items) |-> <<<<v[1][1][1], items[i]>>>>]
    ELSE v
\* the converted non-reference fields of a nested record
LineValues(rec) ==
    LET d == AsDict(exclude_ref_fields(rec)) IN
    [f \in DOMAIN d |->
        IF Falsy(d[f]) THEN False
        ELSE call_converter(<<>>, translations, digits, to_field(CoFields[f]), d[f]).val]
\* the commands that the claim gives for a nested record: LINK_TO and UPDATE
\* for a reference that resolves, CREATE without a reference sub-field,
\* and none for a record of neither kind
LineCommands(rec) ==
    LET refs == only_ref_fields(rec) IN
    IF refs = <<>> THEN <<CREATE_WITH(LineValues(rec))>>
    ELSE LET d == db_id_for(<<>>, refs[1][1], refs[1][2]) IN
         IF Len(refs) > 1 \/ d.exc # "" THEN <<>>
         ELSE <<LINK_TO(d.val[2]), UPDATE_WITH(d.val[2], LineValues(rec))>>
RECURSIVE AllCommands(_)
AllCommands(recs) ==
    IF recs = <<>> THEN <<>> ELSE LineCommands(Head(recs)) \o AllCommands(Tail(recs))

\* C11 (as stated): a converted one2many value is, for each nested record
\* of the input in order and nothing else, LINK_TO(r) then UPDATE(r, fields)
\* for a reference that resolves to r, and CREATE(fields) for a record
\* without a reference sub-field
C11_One2manyCommands ==
    (Done /\ Only("lines") /\ ~Falsy(Val) /\ Converted("lines"))
    => converted["lines"] = List(AllCommands(Val))

\* C11 (amended): the same, for each record of the value after the
\* one-record shorthand has been expanded into one record per reference
C11_One2manyCommandsExpanded ==
    (Done /\ Only("lines") /\ ~Falsy(Val) /\ Converted("lines"))
    => /\ converted["lines"] = List(AllCommands(Expanded(Val)))
       /\ \A i \in 1..Len(Expanded(Val)) : LineCommands(Expanded(Val)[i]) # <<>>

\* a record with a reference and a field, then a record with a field only,
\* became LINK_TO, UPDATE, CREATE
C11_Witness ==
    /\ Done /\ Only("lines") /\ Converted("lines")
    /\ Val = << <<<<".id", <<"2">>>>, <<"qty", <<"1", ".", "5">>>>>>,
                <<<<"name", <<"z">>>>>> >>
    /\ converted["lines"] =
          List(<<LINK_TO(2),
                 UPDATE_WITH(2, "qty" :> Float(FloatOf(<<"1", ".", "5">>))),
                 CREATE_WITH("name" :> Str(<<"z">>))>>)

\* ---- the shorthand of one2many ----
\* the reference of a nested record resolves when it is looked up whole
Resolves(k, text) == db_id_for(<<>>, k, text).exc = ""
\* LINK_TO(r), UPDATE(r, {}) for each reference of the list, in order
RECURSIVE Pairs(_, _)
Pairs(k, items) ==
    IF items = <<>> THEN <<>>
    ELSE LET r == db_id_for(<<>>, k, Head(items)).val[2] IN
         <<LINK_TO(r), UPDATE_WITH(r, <<>>)>> \o Pairs(k, Tail(items))

\* C27: a one2many value of one nested record that holds one reference
\* sub-field and nothing else is converted as one record per
\* comma-separated item of the reference: LINK_TO and UPDATE of each item in
\* order when all of them resolve, the fatal error of the field otherwise.
\* In a value of several records, or in a record that holds a field of the
\* comodel, a reference is looked up whole
C27_One2manyShorthand ==
    (Done /\ Only("lines") /\ ~Falsy(Val)) =>
        /\ Shorthand(Val) =>
              LET k == Val[1][1][1]
                  items == split(Val[1][1][2], ",")
              IN IF \A i \in 1..Len(items) : Resolves(k, items[i])
                 THEN Converted("lines") /\ converted["lines"] = List(Pairs(k, items))
                 ELSE OneError("lines")
        /\ (Len(Val) >= 2 \/ \E i \in 1..Len(Val) : exclude_ref_fields(Val[i]) # <<>>) =>
              /\ Converted("lines") => converted["lines"] = List(AllCommands(Val))
              /\ (\E i \in 1..Len(Val) :
                     LET refs == only_ref_fields(Val[i]) IN
                     Len(refs) = 1 /\ ~Resolves(refs[1][1], refs[1][2]))
                  => OneError("lines")

\* the one record "a,o.b" became the pairs of the records 1 and 2
C27_Witness ==
    /\ Done /\ Only("lines") /\ Converted("lines")
    /\ Val = << <<<<"id", <<"a", ",", "o", ".", "b">>>>>> >>
    /\ converted["lines"] =
          List(<<LINK_TO(1), UPDATE_WITH(1, <<>>), LINK_TO(2), UPDATE_WITH(2, <<>>)>>)

\* the reference "a,o.b" beside a field of the comodel was looked up whole,
\* and not found
C27_WitnessWhole ==
    /\ Done /\ Only("lines") /\ OneError("lines")
    /\ Val = << <<<<"id", <<"a", ",", "o", ".", "b">>>>, <<"name", <<"z">>>>>> >>

\* ---- issues of nested records ----
\* the nested records of the value hold fields of the comodel only
NoRefs(v) == \A i \in 1..Len(v) : v[i] # <<>> /\ only_ref_fields(v[i]) = <<>>
\* the items of the nested records, in the order they are converted in
RECURSIVE NestedItems(_)
NestedItems(v) == IF v = <<>> THEN <<>> ELSE Head(v) \o NestedItems(Tail(v))
\* the outcome of the converter of the comodel for a nested item
NestedOutcome(it) ==
    IF Falsy(it[2]) THEN Return(False, <<>>, <<>>)
    ELSE call_converter(<<>>, translations, digits, to_field(CoFields[it[1]]), it[2])
\* the nested items whose conversion raises a fatal error
NestedFailures(v) ==
    {j \in 1..Len(NestedItems(v)) : NestedOutcome(NestedItems(v)[j]).exc = "ValueError"}
\* the item is converted: no item before it has failed
Arises(v, j) == \A k \in NestedFailures(v) : j <= k
\* the warnings of the nested items, as entries of the sink for the field f
RECURSIVE NestedWarnings(_, _)
NestedWarnings(f, items) ==
    IF items = <<>> THEN <<>>
    ELSE LET ws == NestedOutcome(Head(items)).ws IN
         [i \in 1..Len(ws) |-> <<f, "ImportWarning", ws[i]>>] \o NestedWarnings(f, Tail(items))
\* the entries of the sink for the field f
SinkOf(f) == SelectSeq(sink, LAMBDA e : e[1] = f)
\* the issue is an entry of the sink
InSink(f, kind, issue) ==
    \E e \in 1..Len(sink) : sink[e][1] = f /\ sink[e][2] = kind /\ sink[e][3] = issue
\* the item i of the record is reached: no item before it is of a type
\* without converter
Reached(i) ==
    \A k \in 1..(i - 1) :
        (record[k][1] \in DOMAIN Fields /\ ~Falsy(record[k][2]))
            => to_field(Fields[record[k][1]]) # "None"

\* C22 (as stated): every fatal error and every warning that arises in a
\* field of a nested record of a one2many value is in the sink against the
\* one2many field, and the call returns
C22_NestedIssuesDelivered ==
    (Done /\ Only("lines") /\ ~Falsy(Val) /\ NoRefs(Val)) =>
        /\ raised = ""
        /\ \A j \in 1..Len(NestedItems(Val)) : Arises(Val, j) =>
              LET o == NestedOutcome(NestedItems(Val)[j]) IN
              /\ o.exc = "ValueError" => InSink("lines", "ValueError", o.msg)
              /\ \A w \in 1..Len(o.ws) : InSink("lines", "ImportWarning", o.ws[w])

\* C22 (amended): the first fatal error of a field of a nested record is
\* the one entry of the sink for the one2many field, which is then absent
\* from the result, and the warnings that arose before it are dropped;
\* when no nested field fails the warnings of the nested fields are the
\* entries of the sink for the field, in order.  The error is not raised
\* out of the call, and the other fields of the record are converted and
\* reported as in the call on the record without the one2many field
C22_NestedIssuesInSink ==
    Done => \A i \in 1..Len(record) :
        (record[i][1] = "lines" /\ ~Falsy(record[i][2]) /\ Reached(i)) =>
            LET v == record[i][2]
                o == fn(<<>>, translations, digits, Without(record, i))
            IN /\ raised # "ValueError" /\ raised = o.exc
               /\ SelectSeq(sink, LAMBDA e : e[1] # "lines") = o.sink
               /\ [f \in DOMAIN converted \ {"lines"} |-> converted[f]] = o.converted
               /\ \/ "lines" \in DOMAIN converted
                       /\ \A e \in 1..Len(sink) :
                             sink[e][1] = "lines" => sink[e][2] = "ImportWarning"
                  \/ "lines" \notin DOMAIN converted
                       /\ Len(SinkOf("lines")) = 1 /\ SinkOf("lines")[1][2] = "ValueError"
               /\ NoRefs(v) =>
                     IF NestedFailures(v) = {}
                     THEN /\ "lines" \in DOMAIN converted
                          /\ SinkOf("lines") = NestedWarnings("lines", NestedItems(v))
                     ELSE LET j == CHOOSE k \in NestedFailures(v) : Arises(v, k) IN
                          SinkOf("lines") =
                              <<<<"lines", "ValueError", NestedOutcome(NestedItems(v)[j]).msg>>>>

\* a nested quantity failed beside another field of the record: the error
\* is in the sink against the one2many field and the other field is
\* converted
C22_Witness ==
    /\ Done /\ raised = "" /\ Len(record) = 2
    /\ record[1] = <<"lines", <<<<<<"qty", <<"x">>>>>>>>>>
    /\ SinkOf("lines") = <<<<"lines", "ValueError", NestedOutcome(<<"qty", <<"x">>>>).msg>>>>
    /\ record[2][1] \in DOMAIN converted /\ converted[record[2][1]] # False

\* ---- fields without a converter, empty values ----
\* the i-th item of the record is a field of the model, no reference
\* sub-field of the record itself
PlainField(i) == record[i][1] \in DOMAIN Fields

\* C12: a field whose type has no registered converter and whose raw value
\* is not empty is skipped: no entry in the result, nothing in the sink for
\* it, the call does not raise, and the other fields are converted as if
\* the field had not been there
C12_NoConverterSkipped ==
    Done => \A i \in 1..Len(record) :
        (PlainField(i) /\ to_field(Fields[record[i][1]]) = "None"
           /\ ~Falsy(record[i][2])) =>
        LET f == record[i][1]
            o == fn(<<>>, translations, digits, Without(record, i))
        IN /\ raised = ""
           /\ f \notin DOMAIN converted
           /\ \A e \in 1..Len(sink) : sink[e][1] # f
           /\ converted = o.converted
           /\ sink = o.sink

\* C13: a field whose raw value is empty (empty text, empty list, None,
\* False) is converted to False whatever its type, and adds nothing else to
\* the call: the call ends, reports and caches what it does for the record
\* without the field, and its result is that record's result with the field
\* set to False; alone in the record, the field gives a result of that one
\* entry, an empty sink and no translation looked up
C13_EmptyIsFalse ==
    Done => \A i \in 1..Len(record) :
        (PlainField(i) /\ Falsy(record[i][2])) =>
        LET f == record[i][1]
            o == fn(<<>>, translations, digits, Without(record, i))
        IN /\ raised = o.exc
           /\ sink = o.sink
           /\ \A e \in 1..Len(sink) : sink[e][1] # f
           /\ tnx_cache = o.cache
           /\ raised = "" => converted = SetItem(o.converted, f, False)
           /\ Len(record) = 1 =>
                 /\ raised = ""
                 /\ converted = (f :> False)
                 /\ sink = <<>>
                 /\ tnx_cache = <<>>

\* a field of a type without converter held None and was converted to False
C13_Witness ==
    /\ Done /\ Only("data") /\ Val = RawNone
    /\ to_field(Fields["data"]) = "None"
    /\ raised = "" /\ converted = ("data" :> False) /\ sink = <<>>

\* ---- lookup by name ----
\* the records of the comodel whose name is the text
NameMatches(text) == {r \in DOMAIN CoNames : CoNames[r] = text}
\* the many2one value is one nested record that holds a name and nothing else
ByName(v) == Len(v) = 1 /\ DOMAIN v[1] = {NoneKey}

\* C14: a reference by name with no match is the fatal error of no matching
\* record; with one match it is the id of that record and no warning; with
\* several matches it is the id of the first of them in the order of the
\* name search, with one warning that states how many they are
C14_LookupByName ==
    (Done /\ Only("partner") /\ ByName(Val)) =>
        LET ms == NameMatches(Val[1][NoneKey])
            n == Cardinality(ms)
        IN CASE n = 0 -> OneError("partner") /\ sink[1][3] = "no_matching_record"
             [] n = 1 -> /\ raised = ""
                         /\ converted = ("partner" :> Id(CHOOSE r \in ms : TRUE))
                         /\ sink = <<>>
             [] OTHER -> /\ raised = ""
                         /\ converted = ("partner" :> Id(name_search(Val[1][NoneKey])[1]))
                         /\ \A r \in ms : converted["partner"][2] <= r
                         /\ sink = <<<<"partner", "ImportWarning",
                                      <<"multiple_matches", n>>>>>>

\* the name "e" is the name of three records: the first was taken and the
\* warning counts three
C14_Witness ==
    /\ Done /\ Only("partner") /\ ByName(Val)
    /\ Val[1][NoneKey] = <<"e">>
    /\ converted = ("partner" :> Id(4))
    /\ sink = <<<<"partner", "ImportWarning", <<"multiple_matches", 3>>>>>>

\* ---- lookup by external id ----
\* the many2one value is one nested record that holds an external id and
\* nothing else
ById(v) == Len(v) = 1 /\ DOMAIN v[1] = {"id"}
\* the identifier under which the text is looked up
Qualified(text) ==
    IF \E i \in 1..Len(text) : text[i] = "." THEN text
    ELSE CurrentModule \o <<".">> \o text

\* C28: an external id without a separator is looked up under the module
\* of the import and one with a separator as it is given; what the
\* resolver finds is the converted id, and what it does not find, well
\* formed or not, is the fatal error of no matching record in the sink for
\* the field, and the call returns
C28_LookupByExternalId ==
    (Done /\ Only("partner") /\ ById(Val)) =>
        LET xmlid == Qualified(Val[1]["id"]) IN
        IF xmlid \in DOMAIN XmlIds
        THEN raised = "" /\ sink = <<>> /\ converted = ("partner" :> Id(XmlIds[xmlid]))
        ELSE OneError("partner") /\ sink[1][3] = "no_matching_record"

\* "b" is an identifier of another module only: it was looked up under the
\* module of the import and not found
C28_Witness ==
    /\ Done /\ Only("partner") /\ ById(Val)
    /\ Val[1]["id"] = <<"b">>
    /\ OneError("partner") /\ sink[1][3] = "no_matching_record"

\* ---- the cache of translations ----
\* the translations of src that are installed now
Current(types, src) == get_translations(<<>>, translations, types, src).res

\* C25: a lookup of translations in a later import returns the
\* translations that are installed then, not a list that an earlier import
\* cached: every entry of the cache is current and the record is converted
\* as with an empty cache
C25_CacheScopedToImport ==
    pc = "reconverted" =>
        /\ \A key \in DOMAIN tnx_cache : tnx_cache[key] = Current(key[1], key[2])
        /\ LET o == fn(<<>>, translations, digits, record) IN
           converted = o.converted /\ sink = o.sink /\ raised = o.exc

\* ---- selection ----
\* the text is the stringified key, the label or an installed translation
\* of the label of the i-th item of the selection
Matches(text, i) ==
    \/ text = PyStr(Selection[i][1])
    \/ text = Selection[i][2]
    \/ \E t \in translations :
          t.type \in SelTypes /\ t.src = Selection[i][2] /\ t.value = Str(text)

\* C15: a text that is the stringified key, the label or a translation of
\* the label of an item converts to the key of such an item, the first of
\* the selection, with no warning; a text that matches no item is a fatal
\* error whose metadata lists the labels of the selection
C15_Selection ==
    (Done /\ Only("state") /\ ~Falsy(Val)) =>
        IF \E i \in 1..Len(Selection) : Matches(Val, i)
        THEN LET first == CHOOSE i \in 1..Len(Selection) :
                              Matches(Val, i) /\ \A j \in 1..(i - 1) : ~Matches(Val, j)
             IN /\ raised = ""
                /\ converted = ("state" :> Selection[first][1])
                /\ sink = <<>>
        ELSE /\ OneError("state")
             /\ sink[1][3] = <<"not_in_selection",
                               [i \in 1..Len(Selection) |-> Selection[i][2]]>>

\* a translation of the label of the first item converted to its key
C15_Witness ==
    /\ Done /\ Only("state") /\ Val = <<"B", "r">>
    /\ Row("selection", <<"D", "r">>, Str(<<"B", "r">>)) \in translations
    /\ raised = "" /\ converted = ("state" :> Str(<<"d">>)) /\ sink = <<>>

\* ---- date ----
\* the ways to write a month or a day: zero-padded to two digits, which is
\* the way of YYYY-MM-DD, and the ways strptime takes as well
Pad2(n) == IF n < 10 THEN <<"0">> \o NatText(n) ELSE NatText(n)
LooseWritings(n) ==
    {Pad2(n), NatText(n)}
LooseDayWritings(n) ==
    LooseWritings(n) \cup (IF n < 10 THEN {<<" ">> \o NatText(n)} ELSE {})
\* the text writes a date of the calendar as four digits of a year from 1
\* on, a month and a day, with dashes between
WritesDate(v, strict) ==
    /\ Len(v) >= 4
    /\ AllDigits(SubSeq(v, 1, 4))
    /\ LET y == DigitsVal(SubSeq(v, 1, 4)) IN
       /\ y >= 1
       /\ \E m \in 1..12 : \E d \in 1..DaysIn(y, m) :
            \E mt \in (IF strict THEN {Pad2(m)} ELSE LooseWritings(m)) :
            \E dt \in (IF strict THEN {Pad2(d)} ELSE LooseDayWritings(d)) :
                v = SubSeq(v, 1, 4) \o <<"-">> \o mt \o <<"-">> \o dt

Visible(d) == [k \in DOMAIN d \ {"cls"} |-> d[k]]
\* the descriptor that the class of the new column builds from the arguments
Built(self, c) ==
    IF self.cls = "char" \/ c.computed THEN column_init(c.args) ELSE function_init(c.args)

\* C21: new(**args) leaves the attributes of the descriptor it is called on
\* as they were, and when the descriptor built from the arguments differs
\* from it in an attribute, priority, read groups, selectable and prefetch
\* included, it returns another descriptor that carries the attributes of
\* the built one
C21_NewSharesOnlyEqual ==
    [][(call = NoCall /\ call' # NoCall) =>
         LET self == descs[call'.self]
             built == Built(self, call')
         IN /\ descs'[call'.self] = self
            /\ Visible(built) # Visible(self) =>
                  /\ call'.ret # call'.self
                  /\ Visible(descs'[call'.ret]) = Visible(built)]_vars

\* ------------------------------------------------------------------------
\* Claims about the computed, related and sparse columns (checked under
\* SpecCol)
\* ------------------------------------------------------------------------
\* C17: a set on a computed column without an inverse function ends in an
\* error and changes no stored value
C17_ReadonlyViolation ==
    (outcome.op = "set" /\ ~outcome.inv) =>
        /\ outcome.exc # ""
        /\ table = outcome.table

\* ---- related ----
\* the record that a many2one link of record i leads to, 0 for none
Hop(tab, i) == IF i = 0 THEN 0 ELSE tab[i].link
\* the record on which the last field of the chain is read and written
Target(tab, id, arg) ==
    CASE Len(arg) = 1 -> id
      [] Len(arg) = 2 -> Hop(tab, id)
      [] Len(arg) = 3 -> Hop(tab, Hop(tab, id))
\* the table after the value was written through the chain from one record
WriteOne(tab, id, arg, v) ==
    LET t == Target(tab, id, arg) IN
    [r \in DOMAIN tab |->
        IF r # t THEN tab[r]
        ELSE IF arg[Len(arg)] = "link" THEN [tab[r] EXCEPT !.link = v]
        ELSE [tab[r] EXCEPT !.val = v]]
RECURSIVE WriteEach(_, _, _, _)
WriteEach(tab, ids, arg, v) ==
    IF ids = <<>> THEN tab ELSE WriteEach(WriteOne(tab, Head(ids), arg, v), Tail(ids), arg, v)

\* C18: a read through the chain f1..fn gives the value of fn of the record
\* that f1..f(n-1) lead to from the source record, and False when a link of
\* the chain leads to no record; a write gives the value to fn of that
\* record and to nothing else, and changes nothing when a link leads to no
\* record
C18_RelatedChain ==
    /\ outcome.op = "related_read" =>
          \A id \in Range(outcome.ids) :
              LET t == Target(outcome.table, id, outcome.arg)
                  fn_ == outcome.arg[Len(outcome.arg)]
              IN IF t = 0 THEN outcome.res[id] = False
                 ELSE IF fn_ = "val" THEN outcome.res[id] = outcome.table[t].val
                 ELSE IF outcome.table[t].link = 0 THEN outcome.res[id] = False
                 ELSE outcome.res[id] = <<"pair", outcome.table[t].link,
                                          NameOf(outcome.table[t].link)>>
    /\ outcome.op = "related_write" =>
          /\ table = WriteEach(outcome.table, outcome.ids, outcome.arg, outcome.val)
          /\ (\A id \in Range(outcome.ids) :
                 Target(outcome.table, id, outcome.arg) = 0) => table = outcome.table
          /\ \A r \in Rows :
                /\ outcome.arg[Len(outcome.arg)] = "val" => table[r].link = outcome.table[r].link
                /\ (outcome.arg[Len(outcome.arg)] = "val"
                     /\ \A id \in Range(outcome.ids) :
                           Target(outcome.table, id, outcome.arg) # r)
                   => table[r] = outcome.table[r]

\* a write through a chain of three fields from record 1, whose link leads
\* to record 2, changed the value of record 2 and left record 1 alone
C18_Witness ==
    /\ outcome.op = "related_write"
    /\ outcome.arg = <<"link", "link", "val">> /\ outcome.ids = <<1>>
    /\ outcome.table[1].link = 2 /\ outcome.table[2].link = 2
    /\ outcome.val = Str(<<"a">>) /\ outcome.table[2].val = Str(<<"b">>)
    /\ table[2].val = Str(<<"a">>) /\ table[1] = outcome.table[1]

\* ---- sparse ----
\* the sparse keys other than k that a cell holds, with their values
Others(cell, k) == [x \in DOMAIN cell \ {k} |-> cell[x]]

\* C19: after a write of the sparse field k on a list of records, the cell
\* of each of them is the cell it had with only the key k changed (removed
\* for None, set to the converted value otherwise), and the cells of the
\* other records are as they were
C19_SparseWriteFrame ==
    (outcome.op = "sparse_write" /\ outcome.exc = "") =>
        \A r \in Rows :
            IF r \notin Range(outcome.ids) THEN cells[r] = outcome.cells[r]
            ELSE /\ Others(cells[r], outcome.key) = Others(outcome.cells[r], outcome.key)
                 /\ outcome.val = None <=> outcome.key \notin DOMAIN cells[r]
                 /\ (outcome.val # None
                      /\ SparseFields[outcome.key] \in {"char", "many2one"})
                    => cells[r][outcome.key] = outcome.val

\* C20: a read of sparse fields gives, for a one2many or many2many field,
\* the stored ids that exist (an empty list when the key is absent), for a
\* many2one field False in place of the id of a record that does not exist,
\* and for the other fields the stored value, or False when the key is absent
C20_SparseReadLive ==
    outcome.op = "sparse_read" =>
        \A id \in Range(outcome.ids) : \A k \in Range(outcome.names) :
            LET cell == cells[id]
                v == outcome.res[id][k]
            IN CASE SparseFields[k] \in {"one2many", "many2many"} ->
                      /\ v[1] = "list"
                      /\ Range(v[2]) \subseteq exist
                      /\ IF k \in DOMAIN cell
                         THEN v[2] = SelectSeq(cell[k][2], LAMBDA i : i \in exist)
                         ELSE v[2] = <<>>
                 [] SparseFields[k] = "many2one" ->
                      IF k \in DOMAIN cell /\ cell[k][1] = "int"
                      THEN v = (IF cell[k][2] \in exist THEN cell[k] ELSE False)
                      ELSE v = Get(cell, k, False)
                 [] OTHER -> v = Get(cell, k, False)

\* a record that stores the ids 1 and 3 in a many2many field and the id 1
\* in a many2one field was read when only the record 3 existed
C20_Witness ==
    /\ outcome.op = "sparse_read"
    /\ exist = {3} /\ nextco = 4
    /\ 1 \in Range(outcome.ids) /\ outcome.names = <<"s", "m", "x", "o">>
    /\ cells[1] = ("s" :> Str(<<"a">>)) @@ ("m" :> Id(1)) @@ ("x" :> List(<<1, 3>>))
    /\ outcome.res[1]["x"] = List(<<3>>)
    /\ outcome.res[1]["m"] = False
    /\ outcome.res[1]["o"] = List(<<>>)

====
